---- MODULE Spec2Model ----
(***************************************************************************)
(* Model of the stockdash daily snapshot job                               *)
(* (supabase/functions/save-daily-snapshot/index.ts).                      *)
(*                                                                         *)
(* One run of the serve handler is a sequence of synchronous segments      *)
(* separated by awaits: the request arrives (Invoke), the authentication   *)
(* provider answers getUser (AuthReply), the catalog answers one page      *)
(* request (FetchReply, once per loop iteration) and the database answers  *)
(* the upsert (DbReply).  Runs share nothing but the snapshot table.       *)
(*                                                                         *)
(* The item array allProducts is held as a bag (multiset) of items: every  *)
(* aggregate the job computes (length, sums, filter counts) is independent *)
(* of the order of the array.                                              *)
(***************************************************************************)
EXTENDS Integers, Sequences, FiniteSets, Bags, TLC

\* ------------------------------------------------------------------ bounds

\* The invocations of the handler, which may run concurrently, named in the
\* order in which their requests arrive.
RunOrder == <<"r1", "r2">>
Runs == {RunOrder[i] : i \in 1..Len(RunOrder)}

\* The clock reads 0 to MaxNow; TicksPerDay clock ticks make a calendar day.
MaxNow == 2
TicksPerDay == 2

\* The catalog answers anything it likes on the first EarlyPages pages and on
\* the last page the loop can request; on the pages in between it either
\* fails or returns a full page that does not stop the loop.
EarlyPages == 2

\* ------------------------------------------------------- program constants

limit == 100
MAX_PAGES == 50
LOW_STOCK_MAX == 80

\* ------------------------------------------------------------------ values

\* A string is a tuple of one-character strings; Absent is the value of a
\* header or body field that is not there (null, undefined).
Absent == <<"undefined">>

\* Mutant: only a field that is not there is falsy, the empty string is not.
Falsy_AbsentOnly(x) == x = Absent

\* JavaScript truthiness of the values the handler tests with `!x`: null,
\* undefined and the empty string are falsy.
Falsy(x) == x = Absent \/ x = <<>>

\* ---------------------------------------------------------------- the URL

Lower(c) ==
  CASE c = "H" -> "h" [] c = "T" -> "t" [] c = "P" -> "p" [] c = "S" -> "s"
    [] c = "F" -> "f" [] OTHER -> c

Letters == {"h", "t", "p", "s", "f", "n", "o", "a", "u", "r", "l", "x"}

\* Index of the first ":" of s, 0 when there is none.
FirstColon(s) ==
  IF \E i \in 1..Len(s) : s[i] = ":"
  THEN CHOOSE i \in 1..Len(s) : s[i] = ":" /\ \A j \in 1..(i - 1) : s[j] # ":"
  ELSE 0

Throws == <<"TypeError">>

\* new URL(s).protocol: the lower-cased scheme with its colon, or "throws"
\* when s has no scheme, or has a special scheme (http, https, ftp) and no host.
UrlProtocol(s) ==
  LET c == FirstColon(s)
      scheme == [i \in 1..(c - 1) |-> Lower(s[i])]
      rest == SubSeq(s, c + 1, Len(s))
      special == scheme \in {<<"h","t","t","p">>, <<"h","t","t","p","s">>, <<"f","t","p">>}
      host == IF Len(rest) >= 2 /\ rest[1] = "/" /\ rest[2] = "/"
              THEN SubSeq(rest, 3, Len(rest)) ELSE rest
  IN IF c <= 1 \/ \E i \in 1..(c - 1) : scheme[i] \notin Letters THEN Throws
     ELSE IF special /\ (host = <<>> \/ host[1] = "/") THEN Throws
     ELSE scheme \o <<":">>

\* Mutant: the scheme is not checked against the list.
ValidApiUrl_AnyScheme(s) == UrlProtocol(s) # Throws

\* Lines 74-84: the try block around new URL(apiUrl).
ValidApiUrl(s) ==
  UrlProtocol(s) \in {<<"h","t","t","p",":">>, <<"h","t","t","p","s",":">>}

\* ------------------------------------------------------------- the catalog

\* The items the catalog serves, by position: an item may lack either field.
Kinds ==
  << [availableQuantity |-> 0, price |-> 5],
     [availableQuantity |-> 1, price |-> 2],
     [availableQuantity |-> 80, price |-> 1],
     [availableQuantity |-> 81, price |-> 3],
     [price |-> 4],
     [availableQuantity |-> 7] >>

\* The item at position x of the catalog is Kinds[(x % Len(Kinds)) + 1];
\* CountUpTo(n, j) is the number of positions 1..n that hold Kinds[j].
CountUpTo(n, j) ==
  IF j = 1 THEN n \div Len(Kinds) ELSE (n + Len(Kinds) - (j - 1)) \div Len(Kinds)

\* The bag of the items at positions offset+1 .. offset+len of the catalog.
PageItems(offset, len) ==
  LET count(j) == CountUpTo(offset + len, j) - CountUpTo(offset, j)
  IN [k \in {Kinds[j] : j \in {i \in 1..Len(Kinds) : count(i) > 0}} |->
        count(CHOOSE j \in 1..Len(Kinds) : Kinds[j] = k)]

PageLens == {0, 20, limit}
Totals == {0, 120, 200}
Keys == {"results", "data", "products", "none"}

\* A response body: the items under one of the keys the job reads (or under
\* none), with or without a total.
Body(key, items, withTotal, t) ==
  LET a == IF key = "none" THEN <<>> ELSE key :> items
  IN IF withTotal THEN a @@ ("total" :> t) ELSE a

\* The body of a response whose status is not OK.
ErrorBody == "error" :> <<"x">>

DefaultBody(offset) == Body("results", PageItems(offset, limit), FALSE, 0)

Bodies(offset, pg) ==
  IF pg <= EarlyPages \/ pg >= MAX_PAGES
  THEN {Body(k, PageItems(offset, len), w, t) :
          k \in Keys, len \in PageLens, w \in BOOLEAN, t \in Totals}
  ELSE {DefaultBody(offset)}

\* ----------------------------------------------------------- the handler

\* Line 109: data?.results || data?.data || data?.products || [].
ProductsOf(data) ==
  IF "results" \in DOMAIN data THEN data["results"]
  ELSE IF "data" \in DOMAIN data THEN data["data"]
  ELSE IF "products" \in DOMAIN data THEN data["products"]
  ELSE EmptyBag

\* Mutant: the page replaces what was accumulated.
PushAll_Replace(all, products) == products

\* Line 111: allProducts.push(...products).
PushAll(all, products) == all (+) products

\* Mutant: a total of 0 counts as a total.
TotalReached_ZeroCounts(n, data) == "total" \in DOMAIN data /\ n >= data["total"]

\* Line 113, second operand: allProducts.length >= (data?.total || Infinity).
TotalReached(n, data) ==
  "total" \in DOMAIN data /\ data["total"] # 0 /\ n >= data["total"]

\* Mutant: the total is not consulted.
LoopStops_NoTotal(products, all, data) == BagCardinality(products) < limit

\* Line 113: the condition under which hasMore becomes false.
LoopStops(products, all, data) ==
  BagCardinality(products) < limit \/ TotalReached(BagCardinality(all), data)

\* Mutant: the loop has no cap.
LoopGuard_NoCap(more, pg) == more

\* Mutant: the cap admits one page more.
LoopGuard_OffByOne(more, pg) == more /\ pg <= MAX_PAGES + 1

\* Line 92: the while condition.
LoopGuard(more, pg) == more /\ pg <= MAX_PAGES

\* p.availableQuantity || 0 and p.price || 0.
Qty(p) == IF "availableQuantity" \in DOMAIN p THEN p.availableQuantity ELSE 0
Price(p) == IF "price" \in DOMAIN p THEN p.price ELSE 0

\* Mutant: the lower bound of the low-stock range is inclusive.
IsLowStock_Inclusive(p) == Qty(p) >= 0 /\ Qty(p) <= LOW_STOCK_MAX

\* Line 124: the low-stock filter.
IsLowStock(p) == Qty(p) > 0 /\ Qty(p) <= LOW_STOCK_MAX

\* Line 125: the out-of-stock filter.
IsOutOfStock(p) == Qty(p) = 0

\* The restriction of bag B to the items in S.
Restrict(B, S) == [p \in (DOMAIN B) \cap S |-> B[p]]

\* Line 122: reduce((acc, p) => acc + (p.availableQuantity || 0), 0).
RECURSIVE TotalStockOf(_)
TotalStockOf(B) ==
  IF DOMAIN B = {} THEN 0
  ELSE LET p == CHOOSE q \in DOMAIN B : TRUE
       IN Qty(p) * B[p] + TotalStockOf(Restrict(B, (DOMAIN B) \ {p}))

\* Line 123: reduce((acc, p) => acc + (p.price || 0) * (p.availableQuantity || 0), 0).
RECURSIVE TotalValueOf(_)
TotalValueOf(B) ==
  IF DOMAIN B = {} THEN 0
  ELSE LET p == CHOOSE q \in DOMAIN B : TRUE
       IN Price(p) * Qty(p) * B[p] + TotalValueOf(Restrict(B, (DOMAIN B) \ {p}))

\* Lines 121-125 and 136-143: the row the job upserts.
SnapshotRow(date, all) ==
  [ date |-> date,
    total_products |-> BagCardinality(all),
    total_stock |-> TotalStockOf(all),
    total_value |-> TotalValueOf(all),
    low_stock_products |-> BagCardinality(Restrict(all, {p \in DOMAIN all : IsLowStock(p)})),
    out_of_stock_products |-> BagCardinality(Restrict(all, {p \in DOMAIN all : IsOutOfStock(p)})) ]

\* Line 131: new Date().toISOString().split('T')[0], the calendar day of the clock.
Today(clock) == clock \div TicksPerDay

\* Mutant: an update in place that leaves total_value of the row already there.
Upsert_Merge(tbl, r) ==
  {x \in tbl : x.date # r.date}
    \cup {[r EXCEPT !.total_value = x.total_value] : x \in {y \in tbl : y.date = r.date}}
    \cup (IF \E y \in tbl : y.date = r.date THEN {} ELSE {r})

\* Mutant: a plain insert, which keeps the row already there.
Upsert_Insert(tbl, r) == tbl \cup {r}

\* Mutant: the write replaces the whole table.
Upsert_ReplaceAll(tbl, r) == {r}

\* Lines 134-145: upsert(row, {onConflict: 'date'}) on a table whose date column
\* is unique: the row with that date, if any, is replaced.
Upsert(tbl, r) == {x \in tbl : x.date # r.date} \cup {r}

\* ------------------------------------------------------------------ inputs

AuthHeaders == {Absent, <<>>, <<"g">>, <<"b">>}

\* The tokens the authentication provider knows.
KnownTokens == {<<"g">>}

ApiUrls ==
  { Absent, <<>>,
    <<"n","o","t","-","a","-","u","r","l">>,
    <<"F","T","P",":","/","/","x">>,
    <<"h","t","t","p",":">>,
    <<"h","t","t","p","s",":","/","/","x">> }

ApiTokens == {Absent, <<>>, <<"t">>}

\* What req.json() yields for the body of a request: the two fields, or a
\* rejection when the body is not JSON.
RequestBodies ==
  {[ok |-> TRUE, apiUrl |-> u, apiToken |-> t] : u \in ApiUrls, t \in ApiTokens}
    \cup {[ok |-> FALSE]}

\* ------------------------------------------------------------------- state

VARIABLES
  pc,          \* where each run stands: idle, auth, fetch, upsert, done
  authHeader,  \* the Authorization header of the run's request
  reqBody,     \* the body of the run's request
  apiUrl,      \* line 64: the body's apiUrl, NotRead before the body is read
  apiToken,    \* line 64: the body's apiToken, NotRead before the body is read
  page,        \* line 88
  hasMore,     \* line 90
  allProducts, \* line 87
  products,    \* line 109: the items of the page last received
  data,        \* line 108: what the loop reads of the body last received (its total)
  row,         \* lines 136-143: the row sent to the database
  resp,        \* the response the run returned
  table,       \* daily_stock_snapshots: a set of rows
  now,         \* the server clock, as last read
  requests,    \* history: the offsets of the catalog requests each run issued
  received,    \* history: the number of items of each page a run received
  recvStock,   \* history: the stock of the pages a run received, summed on receipt
  pageFailed,  \* history: a catalog request of the run failed
  authAsked,   \* history: the run called the authentication provider
  applied,     \* history: the runs whose upsert the database applied, in order
  mounted,     \* the Dashboard page is mounted (its 5-minute interval is set)
  loading,     \* the Dashboard's loading state
  calls,       \* the events whose loadData called saveDailySnapshot, in order
  finished     \* the calls of loadData that have run to their finally block

\* The account form (AccountFormModal).
VARIABLES
  formOpen,    \* the open prop: the parent shows the modal
  formType,    \* the type prop: payable or receivable
  editingItem, \* the editingItem prop: the account being edited, NoItem for a new one
  formData,    \* the form's fields
  saving,      \* the saving state
  formPc,      \* where handleSubmit stands: idle, account (awaiting the accounts table), cash
  submitted,   \* the fields handleSubmit read when it was called
  sent,        \* history: the requests handleSubmit sent to the database
  formToast,   \* the toast last shown
  attempts     \* history: the number of calls of handleSubmit

formVars ==
  << formOpen, formType, editingItem, formData, saving, formPc, submitted, sent, formToast,
     attempts >>

\* The payment modal (MarkAsPaidModal).
VARIABLES
  paidOpen,    \* the wallet page's markAsPaidModalOpen
  paidType,    \* the prop type
  paidItem,    \* the prop item (the page's itemToPay), NoItem when null
  paidForm,    \* formData: the paid amount and the payment method
  paidSaving,  \* the saving state
  paidPc,      \* where handleSubmit stands: idle, update (awaiting the accounts table), cash
  paidSent,    \* history: the requests handleSubmit sent to the database
  paidLog,     \* history: one record for each call of handleSubmit
  paidToast    \* the toast last shown

paidVars ==
  << paidOpen, paidType, paidItem, paidForm, paidSaving, paidPc, paidSent, paidLog, paidToast >>

\* The wallet pages (WalletPJ, WalletPF) and the tables they delete from.
VARIABLES
  accountRows,  \* the rows of accounts_payable and accounts_receivable
  cashRows,     \* the rows of cash_flow
  walletList,   \* the accounts the page lists (payables and receivables)
  deletes,      \* one record for each call of handleDelete, with where it stands
  walletLoads,  \* the calls of loadData that have not returned
  walletToast   \* the toast last shown

walletVars == << accountRows, cashRows, walletList, deletes, walletLoads, walletToast >>

\* The layout's data refresh (useDataRefresh, called by MainLayout).
VARIABLES
  hooks,         \* the number of times a page's layout has been mounted
  hookId,        \* the mounted layout's instance of the hook, 0 when none is mounted
  isRefreshing,  \* isRefreshing.current of each instance
  lastRefresh,   \* lastRefresh.current of each instance
  intervalAt,    \* when the mounted instance's interval fires next
  refreshClock,  \* Date.now(), in units of 30 seconds
  refreshes      \* one record for each refresh started: the instance, the API calls
                 \* still running and whether refreshData still awaits them

refreshVars ==
  << hooks, hookId, isRefreshing, lastRefresh, intervalAt, refreshClock, refreshes >>

\* The login page (Auth) and the browser session's storage.
VARIABLES
  authMounted,     \* the login page is shown
  signedIn,        \* the client holds a session
  credentials,     \* the email and the password typed
  loginLoading,    \* the loading state
  loginAttempts,   \* the attempts state
  lockedUntil,     \* the lockedUntil state, 0 when null
  storedAttempts,  \* sessionStorage auth_attempts, the empty text when absent
  storedLockout,   \* sessionStorage auth_lockout, the empty text when absent
  loginPc,         \* where handleLogin stands: idle, or signin (awaiting the sign-in)
  heldAttempts,    \* the attempts the running handleLogin was rendered with
  loginClock,      \* Date.now(), in minutes
  signIns,         \* history: the number of calls of signInWithPassword
  loginToast       \* the toast last shown

loginVars ==
  << authMounted, signedIn, credentials, loginLoading, loginAttempts, lockedUntil,
     storedAttempts, storedLockout, loginPc, heldAttempts, loginClock, signIns, loginToast >>

\* The protected route (ProtectedRoute), the auth client and the timers.
VARIABLES
  routes,         \* the number of times a protected route has been mounted
  routeId,        \* the mounted instance, 0 when none is mounted
  heldSession,    \* of each instance: the session state is not null
  routeLoading,   \* of each instance: the loading state
  timeoutRef,     \* of each instance: timeoutRef.current, a timer's id, 0 when null
  lastActivity,   \* of each instance: lastActivityRef.current
  sessionAsked,   \* of each instance: its getSession() has not resolved yet
  clientSession,  \* the auth client holds a session
  timers,         \* the pending timeouts: id, instance and the time they are due
  nextTimer,      \* the number of timeouts set
  signingOut,     \* the signOut() calls that have not returned
  routeClock,     \* Date.now(), in seconds
  shortWaits,     \* the number of waits of a second or two
  lastReset,      \* history: when resetTimer was last called
  timedOut        \* history: the timeout that fired last, with the time and lastReset

routeVars ==
  << routes, routeId, heldSession, routeLoading, timeoutRef, lastActivity, sessionAsked,
     clientSession, timers, nextTimer, signingOut, routeClock, shortWaits, lastReset,
     timedOut >>

\* The state of the components of the single-page application.
uiVars == << formVars, paidVars, walletVars, refreshVars, loginVars, routeVars >>

vars ==
  << pc, authHeader, reqBody, apiUrl, apiToken, page, hasMore, allProducts, products, data,
     row, resp, table, now, requests, received, recvStock, pageFailed, authAsked,
     applied, mounted, loading, calls, finished, uiVars >>

\* The state of the Dashboard page.
dashVars == << mounted, loading, calls, finished >>

NoBody == [ok |-> FALSE]
NotRead == <<"uninitialised">>
NoRow == <<>>
NoResp == <<>>
NoData == <<>>
Dates == 0..Today(MaxNow)

\* ------------------------------------------------- the account form: values

\* A text value by what the form's checks read of it: its length and its
\* length once trimmed; NullStr is null.
Str(n) == [null |-> FALSE, len |-> n, trimmed |-> n]
Padded(n, t) == [null |-> FALSE, len |-> n, trimmed |-> t]
NullStr == [null |-> TRUE, len |-> 0, trimmed |-> 0]

\* !x for a text value: null and the empty string are falsy.
IsEmpty(t) == t.null \/ t.len = 0

\* x || null and x || ''.
OrNull(t) == IF IsEmpty(t) THEN NullStr ELSE t
OrEmpty(t) == IF IsEmpty(t) THEN Str(0) ELSE t

Digits == <<"0", "1", "2", "3", "4", "5", "6", "7", "8", "9">>
IsDigit(c) == \E d \in 1..10 : Digits[d] = c
DigitVal(c) == (CHOOSE d \in 1..10 : Digits[d] = c) - 1

\* The value of the digits s[i..j].
RECURSIVE DigitsValue(_, _, _)
DigitsValue(s, i, j) ==
  IF j < i THEN 0 ELSE 10 * DigitsValue(s, i, j - 1) + DigitVal(s[j])

\* parseFloat of a text without a decimal point: an optional sign, then the
\* longest run of digits; NaN when there is no digit.
ParseFloat(s) ==
  LET neg == Len(s) >= 1 /\ s[1] = "-"
      from == IF neg THEN 2 ELSE 1
      run == {k \in from..Len(s) : \A i \in from..k : IsDigit(s[i])}
      to == IF run = {} THEN from - 1 ELSE CHOOSE k \in run : \A m \in run : m <= k
  IN IF run = {} THEN [nan |-> TRUE, val |-> 0]
     ELSE [nan |-> FALSE, val |-> (IF neg THEN -1 ELSE 1) * DigitsValue(s, from, to)]

\* Lines 158, 216: isNaN(amountNum) ? 0 : amountNum.
AmountOf(s) == IF ParseFloat(s).nan THEN 0 ELSE ParseFloat(s).val

\* /^\d{4}-\d{2}-\d{2}$/.
MatchesDate(s) ==
  /\ Len(s) = 10
  /\ s[5] = "-" /\ s[8] = "-"
  /\ \A i \in {1, 2, 3, 4, 6, 7, 9, 10} : IsDigit(s[i])

\* format(new Date(), 'yyyy-MM-dd').
TodayText == <<"2", "0", "2", "6", "-", "0", "1", "-", "0", "5">>

NoItem == [id |-> 0]

\* Lines 123-138: resetForm (the paid amount and date, which only the
\* cash-flow row reads, are left out).
DefaultForm ==
  [ description |-> Str(0), amount |-> <<>>, due_date |-> TodayText,
    supplier |-> Str(0), customer |-> Str(0), payment_method |-> Str(0),
    category |-> Str(0), notes |-> Str(0), document_number |-> Str(0),
    status |-> "pending" ]

NoToast == [kind |-> "none"]

\* Lines 83-98: the modal's state when the page has mounted it, closed.
FormInit ==
  /\ formOpen = FALSE
  /\ formType = "payable"
  /\ editingItem = NoItem
  /\ formData = DefaultForm
  /\ saving = FALSE
  /\ formPc = "idle"
  /\ submitted = DefaultForm
  /\ sent = <<>>
  /\ formToast = NoToast
  /\ attempts = 0

\* MarkAsPaidModal lines 118-123: the modal's state when the page has mounted
\* it, with no item to pay.
DefaultPaidForm == [paid_amount |-> <<>>, payment_method |-> Str(0)]

PaidInit ==
  /\ paidOpen = FALSE
  /\ paidType = "payable"
  /\ paidItem = NoItem
  /\ paidForm = DefaultPaidForm
  /\ paidSaving = FALSE
  /\ paidPc = "idle"
  /\ paidSent = <<>>
  /\ paidLog = <<>>
  /\ paidToast = NoToast

\* The accounts and the cash-flow entries in the database when the wallet
\* page has loaded: two accounts with the entry their payment made, one
\* without, and an entry that refers to no account.
TableOf(type) == IF type = "payable" THEN "accounts_payable" ELSE "accounts_receivable"
Account(type, id) == [table |-> TableOf(type), id |-> id]
CashEntry(n, refType, id) == [n |-> n, reference_type |-> refType, reference_id |-> id]

WalletInit ==
  /\ accountRows = {Account("payable", 1), Account("payable", 2), Account("receivable", 3)}
  /\ cashRows = { CashEntry(1, "accounts_payable", 1), CashEntry(2, "accounts_receivable", 3),
                  CashEntry(3, "none", 0) }
  /\ walletList = accountRows
  /\ deletes = <<>>
  /\ walletLoads = 0
  /\ walletToast = NoToast

\* The number of times a layout is mounted, and the time observed.
MaxMounts == 2
StartClock == 3
MaxClock == 14
Instances == 1..MaxMounts

\* useDataRefresh lines 24-25: the refs of an instance before its first
\* render; no layout is mounted yet.
RefreshInit ==
  /\ hooks = 0
  /\ hookId = 0
  /\ isRefreshing = [i \in Instances |-> FALSE]
  /\ lastRefresh = [i \in Instances |-> 0]
  /\ intervalAt = 0
  /\ refreshClock = StartClock
  /\ refreshes = <<>>

\* Auth lines 21-26 with an empty session storage: the login page as a new
\* browser session first shows it.
NoCredentials == [email |-> "empty", password |-> 0]

LoginInit ==
  /\ authMounted = TRUE
  /\ signedIn = FALSE
  /\ credentials = NoCredentials
  /\ loginLoading = FALSE
  /\ loginAttempts = 0
  /\ lockedUntil = 0
  /\ storedAttempts = <<>>
  /\ storedLockout = <<>>
  /\ loginPc = "idle"
  /\ heldAttempts = 0
  /\ loginClock = 0
  /\ signIns = 0
  /\ loginToast = NoToast

\* The number of times a protected route is mounted.
MaxRouteMounts == 2
RouteInstances == 1..MaxRouteMounts

\* ProtectedRoute lines 10-13: the state and the refs of an instance before
\* it is mounted; the browser holds a session and no timer.
RouteInit ==
  /\ routes = 0
  /\ routeId = 0
  /\ heldSession = [i \in RouteInstances |-> FALSE]
  /\ routeLoading = [i \in RouteInstances |-> TRUE]
  /\ timeoutRef = [i \in RouteInstances |-> 0]
  /\ lastActivity = [i \in RouteInstances |-> 0]
  /\ sessionAsked = [i \in RouteInstances |-> FALSE]
  /\ clientSession = TRUE
  /\ timers = {}
  /\ nextTimer = 0
  /\ signingOut = 0
  /\ routeClock = 0
  /\ shortWaits = 0
  /\ lastReset = 0
  /\ timedOut = [inst |-> 0, at |-> 0, lastReset |-> 0]

UiInit == FormInit /\ PaidInit /\ WalletInit /\ RefreshInit /\ LoginInit /\ RouteInit

Init ==
  /\ pc = [r \in Runs |-> "idle"]
  /\ authHeader = [r \in Runs |-> Absent]
  /\ reqBody = [r \in Runs |-> NoBody]
  /\ apiUrl = [r \in Runs |-> NotRead]
  /\ apiToken = [r \in Runs |-> NotRead]
  /\ page = [r \in Runs |-> 1]
  /\ hasMore = [r \in Runs |-> TRUE]
  /\ allProducts = [r \in Runs |-> EmptyBag]
  /\ products = [r \in Runs |-> EmptyBag]
  /\ data = [r \in Runs |-> NoData]
  /\ row = [r \in Runs |-> NoRow]
  /\ resp = [r \in Runs |-> NoResp]
  /\ table = {}
  /\ now = 0
  /\ requests = [r \in Runs |-> <<>>]
  /\ received = [r \in Runs |-> <<>>]
  /\ recvStock = [r \in Runs |-> 0]
  /\ pageFailed = [r \in Runs |-> FALSE]
  /\ authAsked = [r \in Runs |-> FALSE]
  /\ applied = <<>>
  /\ mounted = FALSE
  /\ loading = TRUE
  /\ calls = <<>>
  /\ finished = {}
  /\ UiInit

\* Lines 42-45, 58-61, 67-70, 80-83, 168-171: an error response.
ErrorResponse(status, msg) == [status |-> status, error |-> msg]

\* Mutant: the catch hands the message of the error to the caller.
CatchResponse_Leak(err) == ErrorResponse(500, err)

\* Lines 165-172: the catch block answers any error thrown in the handler
\* with status 500 and a fixed message; the error itself is not used.
CatchResponse(err) == ErrorResponse(500, "An error occurred while processing your request")

\* Lines 151-164: the success response (no status given: 200).
SuccessResponse(snapshot, stats) ==
  [status |-> 200, success |-> TRUE, snapshot |-> snapshot, stats |-> stats]

\* Mutant: the two counts change places.
StatsOf_Swapped(r) ==
  [ totalProducts |-> r.total_products,
    totalStock |-> r.total_stock,
    totalValue |-> r.total_value,
    lowStockProducts |-> r.out_of_stock_products,
    outOfStockProducts |-> r.low_stock_products ]

\* Lines 155-161: the stats object.
StatsOf(r) ==
  [ totalProducts |-> r.total_products,
    totalStock |-> r.total_stock,
    totalValue |-> r.total_value,
    lowStockProducts |-> r.low_stock_products,
    outOfStockProducts |-> r.out_of_stock_products ]

\* Mutant: the provider's verdict is not looked at.
GetUserFailed_Never(user) == FALSE

\* Line 57: authError || !user.
GetUserFailed(user) == ~user

\* Mutant: the status of the response is not looked at.
ResponseOk_Always(outcome) == TRUE

\* Line 104: response.ok.
ResponseOk(outcome) == outcome = "ok"

\* The run returns rsp.
Return(r, rsp) ==
  /\ pc' = [pc EXCEPT ![r] = "done"]
  /\ resp' = [resp EXCEPT ![r] = rsp]

\* Mutant: the request of a page is sent twice.
IssueFetch_Twice(r, pg) ==
  requests' = [requests EXCEPT ![r] = Append(Append(@, (pg - 1) * limit), (pg - 1) * limit)]

\* Lines 93-102: the run issues the catalog request of its page.
IssueFetch(r, pg) ==
  requests' = [requests EXCEPT ![r] = Append(@, (pg - 1) * limit)]

\* Lines 120-145: leaving the loop, the run computes the row, reading the
\* clock (any time not before the time last read), and sends the upsert.
SendUpsert(r, all) ==
  /\ \E t \in now..MaxNow :
       /\ now' = t
       /\ row' = [row EXCEPT ![r] = SnapshotRow(Today(t), all)]
  /\ pc' = [pc EXCEPT ![r] = "upsert"]
  /\ UNCHANGED requests

\* Line 92: the loop's test, with the values the run holds after the segment:
\* another page is requested or the loop is left.
Loop(r, more, pg, all) ==
  IF LoopGuard(more, pg)
  THEN /\ pc' = [pc EXCEPT ![r] = "fetch"]
       /\ IssueFetch(r, pg)
       /\ UNCHANGED << row, now >>
  ELSE SendUpsert(r, all)

\* Lines 29-53: a request arrives (a run's request arrives after those of the
\* runs before it).  Without an Authorization header the run answers 401 at
\* once; with one it asks the authentication provider.
Invoke(r) ==
  /\ pc[r] = "idle"
  /\ \A i \in 1..Len(RunOrder) : RunOrder[i] = r => \A j \in 1..(i - 1) : pc[RunOrder[j]] # "idle"
  /\ \E h \in AuthHeaders, body \in RequestBodies :
       /\ authHeader' = [authHeader EXCEPT ![r] = h]
       /\ reqBody' = [reqBody EXCEPT ![r] = body]
       /\ IF Falsy(h)
          THEN /\ Return(r, ErrorResponse(401, "Authentication required"))
               /\ UNCHANGED authAsked
          ELSE /\ pc' = [pc EXCEPT ![r] = "auth"]
               /\ authAsked' = [authAsked EXCEPT ![r] = TRUE]
               /\ UNCHANGED resp
  /\ UNCHANGED << apiUrl, apiToken, page, hasMore, allProducts, products, data, row,
                  table, now, requests, received, recvStock, pageFailed, applied >>
  /\ UNCHANGED << dashVars, uiVars >>

\* Lines 56-90: the provider answers getUser; the run reads the body, checks
\* it and enters the loop.
AuthReply(r) ==
  /\ pc[r] = "auth"
  /\ \E user \in BOOLEAN :
       /\ user => authHeader[r] \in KnownTokens
       /\ LET body == reqBody[r] IN
          IF GetUserFailed(user)
          THEN /\ Return(r, ErrorResponse(401, "Invalid authentication token"))
               /\ UNCHANGED << apiUrl, apiToken, requests, row, now >>
          ELSE IF ~body.ok
          THEN /\ Return(r, CatchResponse("SyntaxError"))
               /\ UNCHANGED << apiUrl, apiToken, requests, row, now >>
          ELSE /\ apiUrl' = [apiUrl EXCEPT ![r] = body.apiUrl]
               /\ apiToken' = [apiToken EXCEPT ![r] = body.apiToken]
               /\ IF Falsy(body.apiUrl) \/ Falsy(body.apiToken)
                  THEN /\ Return(r, ErrorResponse(400, "API URL and Token are required"))
                       /\ UNCHANGED << requests, row, now >>
                  ELSE IF ~ValidApiUrl(body.apiUrl)
                  THEN /\ Return(r, ErrorResponse(400, "Invalid API URL format"))
                       /\ UNCHANGED << requests, row, now >>
                  ELSE /\ Loop(r, hasMore[r], page[r], allProducts[r])
                       /\ UNCHANGED resp
  /\ UNCHANGED << authHeader, reqBody, page, hasMore, allProducts, products, data, table,
                  received, recvStock, pageFailed, authAsked, applied >>
  /\ UNCHANGED << dashVars, uiVars >>

\* What the loop reads of a body besides its items: the total, when there is one.
TotalOf(body) == [k \in (DOMAIN body) \cap {"total"} |-> body[k]]

\* Lines 94-118: the catalog answers the request of the run's page: with an
\* OK status and a body ("ok"), with another status and an error body
\* ("status"), or not at all, or with a body that is not JSON ("throws").  A
\* failure throws; a page is accumulated and the loop's condition decides
\* what follows.
FetchReply(r) ==
  /\ pc[r] = "fetch"
  /\ \E outcome \in {"ok", "status", "throws"} :
       /\ pageFailed' = [pageFailed EXCEPT ![r] = outcome # "ok"]
       /\ IF outcome = "throws" \/ ~ResponseOk(outcome)
          THEN /\ Return(r, CatchResponse(IF outcome = "throws" THEN "TypeError"
                                           ELSE "Failed to fetch from external API"))
               /\ UNCHANGED << page, hasMore, allProducts, products, data, row, now,
                               requests, received, recvStock >>
          ELSE \E body \in (IF outcome = "ok"
                            THEN Bodies(requests[r][Len(requests[r])], page[r])
                            ELSE {ErrorBody}) :
              LET prods == ProductsOf(body)
                  all == PushAll(allProducts[r], prods)
                  stop == LoopStops(prods, all, body)
                  more == IF stop THEN FALSE ELSE hasMore[r]
                  pg == IF stop THEN page[r] ELSE page[r] + 1
              IN /\ products' = [products EXCEPT ![r] = prods]
                 /\ data' = [data EXCEPT ![r] = TotalOf(body)]
                 /\ allProducts' = [allProducts EXCEPT ![r] = all]
                 /\ hasMore' = [hasMore EXCEPT ![r] = more]
                 /\ page' = [page EXCEPT ![r] = pg]
                 /\ received' = [received EXCEPT ![r] = Append(@, BagCardinality(prods))]
                 /\ recvStock' = [recvStock EXCEPT ![r] = @ + TotalStockOf(prods)]
                 /\ Loop(r, more, pg, all)
                 /\ UNCHANGED resp
  /\ UNCHANGED << authHeader, reqBody, apiUrl, apiToken, table, authAsked, applied >>
  /\ UNCHANGED << dashVars, uiVars >>

\* Lines 134-164: the database answers the upsert: the row is written and the
\* run returns it with the stats, or the write fails and the run throws.  The
\* loop body's constants products and data are gone by then.
DbReply(r) ==
  /\ pc[r] = "upsert"
  /\ \E ok \in BOOLEAN :
       IF ok
       THEN /\ table' = Upsert(table, row[r])
            /\ applied' = Append(applied, r)
            /\ Return(r, SuccessResponse(row[r], StatsOf(SnapshotRow(row[r].date, allProducts[r]))))
       ELSE /\ Return(r, CatchResponse("Failed to save snapshot"))
            /\ UNCHANGED << table, applied >>
  /\ products' = [products EXCEPT ![r] = EmptyBag]
  /\ data' = [data EXCEPT ![r] = NoData]
  /\ UNCHANGED << authHeader, reqBody, apiUrl, apiToken, page, hasMore, allProducts, row, now,
                  requests, received, recvStock, pageFailed, authAsked >>
  /\ UNCHANGED << dashVars, uiVars >>

Next == \E r \in Runs : Invoke(r) \/ AuthReply(r) \/ FetchReply(r) \/ DbReply(r)

Spec == Init /\ [][Next]_vars

\* One invocation on its own: what a run does next depends on nothing
\* another run does.
SoloNext ==
  \E r \in {RunOrder[1]} : Invoke(r) \/ AuthReply(r) \/ FetchReply(r) \/ DbReply(r)

\* Every call the run awaits returns: getUser (line 56), each fetch and its
\* body (lines 94-108) and the upsert (lines 134-145).
Fairness ==
  \A r \in {RunOrder[1]} :
    WF_vars(AuthReply(r)) /\ WF_vars(FetchReply(r)) /\ WF_vars(DbReply(r))

FairSpec == Init /\ [][SoloNext]_vars /\ Fairness

\* --------------------------------------------------------- the Dashboard

\* The job's variables.
jobVars ==
  << pc, authHeader, reqBody, apiUrl, apiToken, page, hasMore, allProducts, products, data,
     row, resp, table, now, requests, received, recvStock, pageFailed, authAsked,
     applied >>

\* What the Dashboard's requests carry: the session token of the user, which
\* the provider accepts or has let expire, and the catalog configuration.
SessionTokens == {<<"g">>, <<"b">>}
ConfigBody ==
  [ok |-> TRUE, apiUrl |-> <<"h","t","t","p","s",":","/","/","x">>, apiToken |-> <<"t">>]

\* The number of items of the catalog the Dashboard is configured with.
CatalogSize == 20

\* Dashboard.loadData, lines 325-329: setLoading(true), then
\* apiService.saveDailySnapshot() is called and awaited.  ev is what called
\* loadData.
LoadData(ev) ==
  /\ Len(calls) < Len(RunOrder)
  /\ loading' = TRUE
  /\ calls' = Append(calls, ev)
  /\ UNCHANGED finished

\* Lines 352-353: the effect that runs when the page mounts calls loadData
\* and sets the interval.
Mount ==
  /\ ~mounted
  /\ mounted' = TRUE
  /\ LoadData("mount")
  /\ UNCHANGED << jobVars, uiVars >>

\* Line 356: setInterval(loadData, 5 * 60 * 1000).
TimerFires ==
  /\ mounted
  /\ LoadData("timer")
  /\ UNCHANGED << mounted, jobVars, uiVars >>

\* Lines 403-407: the refresh button, onClick={loadData} disabled={loading}.
ClickRefresh ==
  /\ mounted
  /\ ~loading
  /\ LoadData("click")
  /\ UNCHANGED << mounted, jobVars, uiVars >>

\* Line 357: the effect's cleanup clears the interval when the page unmounts;
\* the calls of loadData in flight go on.
Unmount ==
  /\ mounted
  /\ mounted' = FALSE
  /\ UNCHANGED << loading, calls, finished, jobVars, uiVars >>

\* Line 329: the request of the i-th call of saveDailySnapshot reaches the
\* function, with the user's session token and the configuration.
SaveDailySnapshot(r) ==
  /\ \E i \in 1..Len(calls) : RunOrder[i] = r
  /\ Invoke(r)
  /\ authHeader'[r] \in SessionTokens
  /\ reqBody'[r] = ConfigBody

\* The catalog answers the Dashboard's run: it fails, or serves its
\* CatalogSize items on one page.
DashFetchReply(r) ==
  /\ FetchReply(r)
  /\ pageFailed'[r] \/ (products'[r] = PageItems(0, CatalogSize) /\ data'[r] = NoData)

\* The i-th call was made by the page that is mounted now, not by one that
\* has been unmounted since.
OfMountedPage(i) == mounted /\ \A j \in (i + 1)..Len(calls) : calls[j] # "mount"

\* Lines 329-350: the call of saveDailySnapshot has returned; loadData reads
\* what it displays and, in its finally block, sets loading to false (the
\* loading state of its own page: a page unmounted since has none).
LoadDataDone(i) ==
  /\ i \in (1..Len(calls)) \ finished
  /\ pc[RunOrder[i]] = "done"
  /\ finished' = finished \cup {i}
  /\ loading' = IF OfMountedPage(i) THEN FALSE ELSE loading
  /\ UNCHANGED << mounted, calls, jobVars, uiVars >>

DashNext ==
  \/ Mount \/ TimerFires \/ ClickRefresh \/ Unmount
  \/ \E r \in Runs : SaveDailySnapshot(r) \/ AuthReply(r) \/ DashFetchReply(r) \/ DbReply(r)
  \/ \E i \in 1..Len(RunOrder) : LoadDataDone(i)

DashSpec == Init /\ [][DashNext]_vars

\* ------------------------------------------------------------------ claims

\* The run has received a page and the loop has decided what follows.
AfterPage(r) == pc[r] \in {"fetch", "upsert"} /\ received[r] # <<>>

LastReceived(r) == received[r][Len(received[r])]

\* After a page, the run has requested exactly the next page: one request
\* more than pages received, at the offset that follows them.
NextPageRequested(r) ==
  /\ pc[r] = "fetch"
  /\ Len(requests[r]) = Len(received[r]) + 1
  /\ requests[r][Len(requests[r])] = Len(received[r]) * limit

\* The loop was left after the page: no request beyond the pages received.
LoopLeft(r) == pc[r] = "upsert" /\ Len(requests[r]) = Len(received[r])

ShortPage(r) == LastReceived(r) < limit
PageCapHit(r) == Len(received[r]) = MAX_PAGES

\* C1 as stated: after each page fetched the loop stops if and only if the
\* page held fewer than 100 items, or the accumulated count has reached the
\* total the API reported, or 50 pages have been fetched; otherwise exactly
\* the next page is requested.
C1_AsStated ==
  \A r \in Runs :
    AfterPage(r) =>
      IF \/ ShortPage(r)
         \/ ("total" \in DOMAIN data[r] /\ BagCardinality(allProducts[r]) >= data[r]["total"])
         \/ PageCapHit(r)
      THEN LoopLeft(r)
      ELSE NextPageRequested(r)

\* C1 (amended): after each page fetched the loop stops if and only if the
\* page held fewer than 100 items, or the API reported a total other than 0
\* and the accumulated count has reached it, or 50 pages have been fetched;
\* otherwise exactly the next page is requested.  A run that received a page
\* of 100 and then a page of 20 has issued exactly 2 requests and has left
\* the loop.
C1_LoopStopsIff ==
  \A r \in Runs :
    /\ AfterPage(r) =>
         IF \/ ShortPage(r)
            \/ ( /\ "total" \in DOMAIN data[r]
                 /\ data[r]["total"] # 0
                 /\ BagCardinality(allProducts[r]) >= data[r]["total"] )
            \/ PageCapHit(r)
         THEN LoopLeft(r)
         ELSE NextPageRequested(r)
    /\ (Len(received[r]) >= 2 /\ received[r][1] = 100 /\ received[r][2] = 20) =>
         Len(received[r]) = 2 /\ Len(requests[r]) = 2 /\ pc[r] \in {"upsert", "done"}

\* A run served 100 items and then 20 has written its snapshot of 120 items.
C1_Witness ==
  \E r \in Runs :
    /\ received[r] = <<100, 20>>
    /\ pc[r] = "done"
    /\ resp[r].status = 200
    /\ resp[r].snapshot.total_products = 120

\* C2: a run issues at most 50 catalog requests and accumulates at most 50
\* pages, whatever the catalog answers.
C2_AtMostFiftyPages ==
  \A r \in Runs :
    /\ Len(requests[r]) <= 50
    /\ Len(received[r]) <= 50
    /\ BagCardinality(allProducts[r]) <= 50 * 100

\* A run that was served 50 full pages by a catalog that never stops has
\* left the loop.
C2_Witness ==
  \E r \in Runs :
    /\ pc[r] = "upsert"
    /\ Len(requests[r]) = 50
    /\ Len(received[r]) = 50
    /\ \A i \in 1..50 : received[r][i] = 100
    /\ data[r] = NoData

\* The database applied the upsert of run r.
Applied(r) == \E i \in 1..Len(applied) : applied[i] = r

\* C3: the total_stock a run writes is the sum of the available quantities
\* of the items of every page it received, each page counted once: so it is
\* in the row the run sends, and in every row of the table for the run that
\* wrote it.
C3_TotalStockIsSumOfPages ==
  /\ \A r \in Runs : row[r] # NoRow => row[r].total_stock = recvStock[r]
  /\ \A x \in table : \E r \in Runs : Applied(r) /\ x = row[r] /\ x.total_stock = recvStock[r]

\* A run that received two pages with stock on both has written the row.
C3_Witness ==
  \E r \in Runs :
    /\ pc[r] = "done" /\ resp[r].status = 200
    /\ Len(received[r]) = 2
    /\ TotalStockOf(PageItems(0, received[r][1])) > 0
    /\ recvStock[r] > TotalStockOf(PageItems(0, received[r][1]))
    /\ resp[r].snapshot \in table

\* The number of items of bag B whose quantity (0 when the item has none) is in S.
CountQty(B, S) ==
  BagCardinality([p \in {q \in DOMAIN B : Qty(q) \in S} |-> B[p]])

\* C4: in the row a run computes, the items of quantity 0 are counted in
\* out_of_stock_products and not in low_stock_products, the items of
\* quantity 1..80 in low_stock_products and not in out_of_stock_products,
\* and low_stock_products + out_of_stock_products <= total_products, in the
\* row of the run and in every row of the table.
C4_LowAndOutExclusive ==
  /\ \A r \in Runs :
       row[r] # NoRow =>
         /\ row[r].out_of_stock_products = CountQty(allProducts[r], {0})
         /\ row[r].low_stock_products = CountQty(allProducts[r], 1..80)
         /\ row[r].low_stock_products + row[r].out_of_stock_products <= row[r].total_products
         /\ \A p \in DOMAIN allProducts[r] :
              /\ Qty(p) = 0 => IsOutOfStock(p) /\ ~IsLowStock(p)
              /\ Qty(p) \in 1..80 => IsLowStock(p) /\ ~IsOutOfStock(p)
  /\ \A x \in table : x.low_stock_products + x.out_of_stock_products <= x.total_products

\* A written row that counts low-stock items, out-of-stock items and items
\* that are neither.
C4_Witness ==
  \E x \in table :
    /\ x.low_stock_products > 0
    /\ x.out_of_stock_products > 0
    /\ x.low_stock_products + x.out_of_stock_products < x.total_products

\* The rows of the table for date d.
RowsFor(d) == {x \in table : x.date = d}

\* C5: when two runs have succeeded on the same calendar day, the table
\* holds exactly one row for that date, and it is the row (date and five
\* aggregates) of the run that wrote second.
C5_SecondRunOverwrites ==
  \A r1, r2 \in Runs :
    (applied = <<r1, r2>> /\ row[r1].date = row[r2].date) =>
      RowsFor(row[r2].date) = {row[r2]}

\* Two runs on the same day computed different aggregates and both
\* succeeded, the second to arrive writing second.
C5_Witness ==
  \E r1, r2 \in Runs :
    /\ applied = <<r1, r2>> /\ applied = RunOrder
    /\ pc[r1] = "done" /\ pc[r2] = "done"
    /\ resp[r1].status = 200 /\ resp[r2].status = 200
    /\ row[r1].date = row[r2].date
    /\ row[r1].total_stock # row[r2].total_stock
    /\ row[r1].total_value # row[r2].total_value

\* C6: the table holds at most one row per date.
C6_OneRowPerDate ==
  \A x, y \in table : x.date = y.date => x = y

\* Runs on two different days have each left their row.
C6_Witness ==
  /\ Len(applied) = 2
  /\ Cardinality(table) = 2
  /\ \E x, y \in table : x.date # y.date

\* The positions in applied of the writes for date d.
WritesFor(d) == {i \in 1..Len(applied) : row[applied[i]].date = d}

Max(S) == CHOOSE m \in S : \A n \in S : n <= m

\* C7: whatever the interleaving of two runs, the rows of the table for a
\* date are exactly the row of the run whose upsert for that date was applied
\* last (none when no upsert for the date was applied): one row, with the
\* date and the five aggregates of that one run.
C7_LastWriteWins ==
  \A d \in Dates :
    RowsFor(d) = IF WritesFor(d) = {} THEN {} ELSE {row[applied[Max(WritesFor(d))]]}

\* Two runs were in flight together (the run that arrived second wrote
\* first), wrote for the same day, and all five aggregates of the two differ.
C7_Witness ==
  /\ Len(applied) = 2
  /\ applied[1] = RunOrder[2] /\ applied[2] = RunOrder[1]
  /\ row[applied[1]].date = row[applied[2]].date
  /\ \A f \in {"total_products", "total_stock", "total_value",
               "low_stock_products", "out_of_stock_products"} :
       row[applied[1]][f] # row[applied[2]][f]

\* C8: a run one of whose catalog requests was answered with a status that
\* is not OK, or not answered, has returned an error response, has sent no
\* upsert and has written nothing; the step in which the request fails
\* leaves the table as it was.
C8_FailedPageWritesNothing ==
  /\ [](\A r \in Runs :
          pageFailed[r] =>
            /\ pc[r] = "done"
            /\ resp[r].status = 500
            /\ "error" \in DOMAIN resp[r]
            /\ row[r] = NoRow
            /\ ~Applied(r))
  /\ [][\A r \in Runs : (~pageFailed[r] /\ pageFailed'[r]) => table' = table]_vars

\* A run failed on its third page, after two pages were received.
C8_Witness ==
  \E r \in Runs :
    /\ pageFailed[r]
    /\ Len(received[r]) = 2
    /\ Len(requests[r]) = 3
    /\ resp[r].status = 500

\* C9: a run whose request has no Authorization header, or one the
\* authentication provider does not know, or that answered 401, issues no
\* catalog request and writes no row; when it has returned, its answer is 401.
C9_UnauthenticatedRejected ==
  \A r \in Runs :
    /\ (pc[r] # "idle" /\ (Falsy(authHeader[r]) \/ authHeader[r] \notin KnownTokens)) =>
         /\ requests[r] = <<>>
         /\ row[r] = NoRow
         /\ ~Applied(r)
         /\ pc[r] \in {"auth", "done"}
         /\ pc[r] = "done" => resp[r].status = 401
    /\ (pc[r] = "done" /\ resp[r].status = 401) =>
         requests[r] = <<>> /\ row[r] = NoRow /\ ~Applied(r)

\* A run with a token the provider rejected has answered 401.
C9_Witness ==
  \E r \in Runs :
    /\ pc[r] = "done"
    /\ authHeader[r] = <<"b">>
    /\ authAsked[r]
    /\ resp[r].status = 401

\* s begins with pre, letter case aside.
StartsWith(s, pre) ==
  Len(s) >= Len(pre) /\ \A i \in 1..Len(pre) : Lower(s[i]) = pre[i]

\* s is an http or https URL with a host.
WellFormedHttpUrl(s) ==
  \/ StartsWith(s, <<"h","t","t","p",":","/","/">>) /\ Len(s) > 7
  \/ StartsWith(s, <<"h","t","t","p","s",":","/","/">>) /\ Len(s) > 8

\* C10 as stated: a run whose request carries a base URL that is not a
\* well-formed http(s) URL answers 400 before any network call is made, and
\* writes nothing.
C10_AsStated ==
  \A r \in Runs :
    (pc[r] = "done" /\ reqBody[r].ok /\ ~WellFormedHttpUrl(reqBody[r].apiUrl)) =>
      /\ resp[r].status = 400
      /\ ~authAsked[r]
      /\ requests[r] = <<>>
      /\ ~Applied(r)

\* C10 (amended): a run that has passed the authentication check and read a
\* body whose base URL is not a well-formed http(s) URL answers 400 before
\* any catalog request is issued (the authentication provider has been called
\* by then), and writes nothing.
C10_InvalidUrlRejected ==
  \A r \in Runs :
    (apiUrl[r] # NotRead /\ ~WellFormedHttpUrl(apiUrl[r])) =>
      /\ pc[r] = "done"
      /\ resp[r].status = 400
      /\ authAsked[r]
      /\ requests[r] = <<>>
      /\ row[r] = NoRow
      /\ ~Applied(r)

\* A run with a token and an ftp URL has answered 400.
C10_Witness ==
  \E r \in Runs :
    /\ pc[r] = "done"
    /\ apiUrl[r] = <<"F","T","P",":","/","/","x">>
    /\ apiToken[r] = <<"t">>
    /\ resp[r] = ErrorResponse(400, "Invalid API URL format")

\* The field is not there, or is the empty string.
Lacking(v) == v = Absent \/ v = <<>>

WritesOf(r) == Cardinality({i \in 1..Len(applied) : applied[i] = r})

\* C12: a run writes to the table at most once, and only after its loop is
\* over with every request it issued answered by a page (none failed, none
\* outstanding); while a run is fetching it has sent no row and written
\* nothing; a step that writes is the database's answer to the one upsert of
\* a run out of its loop, and a run that has written issues no request.
C12_OneWriteAfterLoop ==
  /\ [](\A r \in Runs :
          /\ WritesOf(r) <= 1
          /\ Applied(r) =>
               /\ pc[r] = "done"
               /\ ~pageFailed[r]
               /\ Len(received[r]) = Len(requests[r])
               /\ Len(requests[r]) >= 1
          /\ pc[r] \in {"idle", "auth", "fetch"} => row[r] = NoRow /\ ~Applied(r))
  /\ [][ /\ (table' # table \/ applied' # applied) =>
              \E r \in Runs :
                /\ pc[r] = "upsert" /\ pc'[r] = "done"
                /\ applied' = Append(applied, r)
                /\ table' = Upsert(table, row[r])
                /\ requests' = requests
         /\ \A r \in Runs : requests'[r] # requests[r] => ~Applied(r) /\ WritesOf(r)' = 0
       ]_vars

\* A run has written once, after two pages that both succeeded.
C12_Witness ==
  \E r \in Runs :
    /\ WritesOf(r) = 1
    /\ Len(received[r]) = 2 /\ Len(requests[r]) = 2
    /\ ~pageFailed[r]
    /\ resp[r].status = 200
    /\ resp[r].snapshot \in table

\* The database applies the upsert of run r in this step.
Writes(r) == pc[r] = "upsert" /\ applied' = Append(applied, r)

\* C13: the row a run sends is keyed by the calendar day of the server clock
\* as the run read it; the step that applies a run's upsert leaves the table
\* with exactly that row for its date, the row the run then returns, and with
\* the rows it had for every other date, no more and no fewer.
C13_OnlyTodaysRow ==
  [][ /\ \A r \in Runs :
           (row[r] = NoRow /\ row'[r] # NoRow) =>
             /\ row'[r].date = now' \div TicksPerDay
             /\ now' >= now
      /\ \A r \in Runs :
           Writes(r) =>
             /\ row'[r] = row[r]
             /\ {x \in table' : x.date = row[r].date} = {row[r]}
             /\ {x \in table' : x.date # row[r].date} = {x \in table : x.date # row[r].date}
             /\ resp'[r].status = 200 /\ resp'[r].snapshot = row[r]
      /\ table' # table => \E r \in Runs : Writes(r)
    ]_vars

\* The first run wrote the row of day 0; the second run, on day 1, wrote its
\* own row and the row of day 0 is still there.
C13_Witness ==
  /\ applied = RunOrder
  /\ row[applied[1]].date = 0 /\ row[applied[2]].date = 1
  /\ now \div TicksPerDay = 1
  /\ table = {row[applied[1]], row[applied[2]]}
  /\ resp[applied[1]].snapshot \in table
  /\ row[applied[1]].total_products > 0

\* The request of run r fails the authentication check for certain: it has
\* no Authorization header, or one the provider does not know.
Unauthenticated(r) == Falsy(authHeader[r]) \/ authHeader[r] \notin KnownTokens

\* The body of the request of run r is not a valid input: it cannot be read,
\* or lacks a field, or its base URL is not a well-formed http(s) URL.
InvalidInput(r) ==
  \/ ~reqBody[r].ok
  \/ Lacking(reqBody[r].apiUrl) \/ Lacking(reqBody[r].apiToken)
  \/ ~WellFormedHttpUrl(reqBody[r].apiUrl)

\* A catalog request of run r failed, or its upsert did.
UpstreamOrDbFailed(r) ==
  pageFailed[r] \/ (pc[r] = "done" /\ row[r] # NoRow /\ ~Applied(r))

\* C14 as stated: the status of the response of a run matches the outcome:
\* 200 with the row written and the stats when the job completed, 401 when
\* the caller is unauthenticated, 400 when the input is invalid (the 401
\* taking precedence), 500 when a catalog request or the database write
\* failed, and no other case answers 400 or 500; no failure is answered 200.
C14_AsStated ==
  \A r \in Runs :
    pc[r] = "done" =>
      /\ resp[r].status \in {200, 400, 401, 500}
      /\ resp[r].status = 200 <=>
           (Applied(r) /\ ~Unauthenticated(r) /\ ~InvalidInput(r) /\ ~UpstreamOrDbFailed(r))
      /\ resp[r].status = 200 =>
           /\ DOMAIN resp[r] = {"status", "success", "snapshot", "stats"}
           /\ resp[r].snapshot = row[r]
      /\ Unauthenticated(r) => resp[r].status = 401
      /\ resp[r].status = 401 => ~Applied(r) /\ requests[r] = <<>>
      /\ (InvalidInput(r) /\ resp[r].status # 401) => resp[r].status = 400
      /\ resp[r].status = 400 => InvalidInput(r)
      /\ UpstreamOrDbFailed(r) <=> resp[r].status = 500

GenericError == [status |-> 500, error |-> "An error occurred while processing your request"]

\* C15: a run whose catalog request or upsert failed has answered with
\* status 500 and the fixed message and nothing else, whichever page failed
\* and however it failed; so two runs given the same request, both of which
\* failed upstream or at the database, have returned identical responses.
C15_FailuresIndistinguishable ==
  /\ \A r \in Runs : UpstreamOrDbFailed(r) => pc[r] = "done" /\ resp[r] = GenericError
  /\ \A r1, r2 \in Runs :
       ( /\ UpstreamOrDbFailed(r1) /\ UpstreamOrDbFailed(r2)
         /\ authHeader[r1] = authHeader[r2] /\ reqBody[r1] = reqBody[r2] ) =>
         resp[r1] = resp[r2]

\* Two runs given the same request: the catalog failed the second page of
\* one, the database failed the upsert of the other.
C15_Witness ==
  \E r1, r2 \in Runs :
    /\ pc[r1] = "done" /\ pc[r2] = "done"
    /\ authHeader[r1] = authHeader[r2] /\ reqBody[r1] = reqBody[r2]
    /\ pageFailed[r1] /\ Len(requests[r1]) = 2 /\ Len(received[r1]) = 1
    /\ ~pageFailed[r2] /\ row[r2] # NoRow /\ ~Applied(r2)
    /\ resp[r1] = resp[r2]

\* C16: the i-th catalog request of a run has offset (i-1)*100, so the
\* offsets increase and none is requested twice; at most one request is
\* outstanding, and only while the run waits for it; a request is issued
\* only in a step in which every earlier request of the run has been
\* answered by a page, and a run one of whose requests failed issues no
\* request again.
C16_SequentialRequests ==
  /\ [](\A r \in Runs :
          /\ \A i \in 1..Len(requests[r]) : requests[r][i] = (i - 1) * 100
          /\ Len(requests[r]) =
               Len(received[r]) + (IF pc[r] = "fetch" \/ pageFailed[r] THEN 1 ELSE 0)
          /\ pageFailed[r] => pc[r] = "done")
  /\ [][\A r \in Runs :
          requests'[r] # requests[r] =>
            /\ ~pageFailed[r] /\ ~pageFailed'[r]
            /\ Len(requests'[r]) = Len(requests[r]) + 1
            /\ SubSeq(requests'[r], 1, Len(requests[r])) = requests[r]
            /\ Len(received'[r]) = Len(requests[r])
       ]_vars

\* A run has issued the requests of offsets 0, 100, 200 and 300, one after
\* the answer to the other, and the fourth failed.
C16_Witness ==
  \E r \in Runs :
    /\ requests[r] = <<0, 100, 200, 300>>
    /\ received[r] = <<100, 100, 100>>
    /\ pageFailed[r]
    /\ pc[r] = "done"

\* C17: a success response of a run carries the row the run sent, which the
\* step that returns it has put in the table, and stats whose five values
\* are the five aggregates of that row.
C17_StatsEqualRow ==
  /\ [](\A r \in Runs :
          (pc[r] = "done" /\ resp[r].status = 200) =>
            /\ Applied(r)
            /\ resp[r].snapshot = row[r]
            /\ DOMAIN resp[r].stats =
                 {"totalProducts", "totalStock", "totalValue",
                  "lowStockProducts", "outOfStockProducts"}
            /\ resp[r].stats.totalProducts = resp[r].snapshot.total_products
            /\ resp[r].stats.totalStock = resp[r].snapshot.total_stock
            /\ resp[r].stats.totalValue = resp[r].snapshot.total_value
            /\ resp[r].stats.lowStockProducts = resp[r].snapshot.low_stock_products
            /\ resp[r].stats.outOfStockProducts = resp[r].snapshot.out_of_stock_products)
  /\ [][\A r \in Runs :
          (resp[r] = NoResp /\ resp'[r] # NoResp /\ resp'[r].status = 200) =>
            resp'[r].snapshot \in table'
       ]_vars

\* A success response whose five values are all different.
C17_Witness ==
  \E r \in Runs :
    /\ pc[r] = "done" /\ resp[r].status = 200
    /\ Cardinality({resp[r].stats.totalProducts, resp[r].stats.totalStock,
                    resp[r].stats.totalValue, resp[r].stats.lowStockProducts,
                    resp[r].stats.outOfStockProducts}) = 5
    /\ resp[r].stats.outOfStockProducts > 0

\* The event whose loadData started run r: the i-th call of saveDailySnapshot
\* is served by the i-th run.
Cause(r) == calls[CHOOSE i \in 1..Len(RunOrder) : RunOrder[i] = r]

\* What an end user does to the page: opening it and clicking its refresh
\* button.
UserActions == {"mount", "click"}

DatesOf(tbl) == {x.date : x \in tbl}

C19_EveryRunReturns ==
  /\ \A r \in Runs : (pc[r] # "idle") ~> (pc[r] = "done")
  /\ [](\A r \in Runs :
          /\ Len(requests[r]) <= 50
          /\ (pc[r] = "done") <=> (resp[r] # NoResp))
  /\ [][\A r \in Runs : resp[r] # NoResp => resp'[r] = resp[r]]_vars

\* A run has returned after the 50 pages the cap allows.
C19_Witness ==
  \E r \in Runs :
    /\ pc[r] = "done"
    /\ Len(requests[r]) = 50 /\ Len(received[r]) = 50
    /\ \A i \in 1..50 : received[r][i] = 100
    /\ resp[r] # NoResp

\* The run received 50 full pages, none of which stopped the loop by its total.
StoppedByCap(r) ==
  /\ Len(received[r]) = 50
  /\ \A i \in 1..50 : received[r][i] = 100
  /\ hasMore[r]

\* C20 as stated: a run whose loop stopped at the cap of 50 pages with the
\* catalog still serving full pages does not fail: once it has returned, its
\* response is a success and its row over the 5000 items is written.
C20_AsStated ==
  \A r \in Runs :
    (StoppedByCap(r) /\ pc[r] = "done") =>
      /\ resp[r].status = 200
      /\ Applied(r)
      /\ resp[r].snapshot.total_products = 5000

\* C20 (amended): a run whose loop stopped at the cap of 50 pages with the
\* catalog still serving full pages has left the loop without failing and
\* has sent the upsert of a row over the 5000 items of the 50 pages; once it
\* has returned, either the database applied the upsert and the response is
\* a success carrying that row, or the database failed it and the response
\* is the 500 of a failed write.
C20_CapIsNotAFailure ==
  \A r \in Runs :
    StoppedByCap(r) =>
      /\ pc[r] \in {"upsert", "done"}
      /\ ~pageFailed[r]
      /\ Len(requests[r]) = 50
      /\ row[r] # NoRow
      /\ row[r].total_products = 5000
      /\ row[r].total_stock = recvStock[r]
      /\ pc[r] = "done" =>
           \/ Applied(r) /\ resp[r].status = 200 /\ resp[r].snapshot = row[r]
           \/ ~Applied(r) /\ resp[r] = GenericError

\* A run stopped by the cap has written its row of 5000 items and returned
\* success.
C20_Witness ==
  \E r \in Runs :
    /\ StoppedByCap(r)
    /\ pc[r] = "done"
    /\ resp[r].status = 200
    /\ resp[r].snapshot.total_products = 5000
    /\ resp[r].snapshot \in table

\* The body of the page last received carried no total, or a total of 0.
NoUsableTotal(r) == "total" \notin DOMAIN data[r] \/ data[r]["total"] = 0

\* C21: after a page whose body carries no total, or a total of 0, the loop
\* is left exactly when the page was short or was the 50th, and otherwise the
\* next page is requested; after a page whose body carries a positive total
\* that the accumulated count has reached, the loop is left.
C21_AbsentOrZeroTotalIgnored ==
  \A r \in Runs :
    AfterPage(r) =>
      /\ NoUsableTotal(r) =>
           IF ShortPage(r) \/ PageCapHit(r) THEN LoopLeft(r) ELSE NextPageRequested(r)
      /\ ( /\ "total" \in DOMAIN data[r] /\ data[r]["total"] > 0
           /\ BagCardinality(allProducts[r]) >= data[r]["total"] ) => LoopLeft(r)
      /\ ( /\ "total" \in DOMAIN data[r] /\ data[r]["total"] > 0
           /\ BagCardinality(allProducts[r]) < data[r]["total"]
           /\ ~ShortPage(r) /\ ~PageCapHit(r) ) => NextPageRequested(r)

\* A run received a full first page whose body reported a total of 0 and
\* has requested the second page.
C21_Witness ==
  \E r \in Runs :
    /\ pc[r] = "fetch"
    /\ received[r] = <<100>>
    /\ "total" \in DOMAIN data[r] /\ data[r]["total"] = 0
    /\ requests[r] = <<0, 100>>

\* --------------------------------------------------------- the account form

\* The number of times the user submits the form.
MaxAttempts == 2

\* Everything but the form.
besidesForm ==
  << jobVars, dashVars, paidVars, walletVars, refreshVars, loginVars, routeVars >>

\* The accounts the page lists: one pending without a payment method, one
\* settled with one.
Items(type) ==
  { [id |-> 1, description |-> Str(5), amount |-> <<"1", "0">>, due_date |-> TodayText,
     party |-> NullStr, payment_method |-> NullStr, category |-> NullStr, notes |-> NullStr,
     document_number |-> NullStr, status |-> "pending"],
    [id |-> 2, description |-> Str(5), amount |-> <<"1", "0">>, due_date |-> TodayText,
     party |-> Str(4), payment_method |-> Str(3), category |-> NullStr, notes |-> NullStr,
     document_number |-> NullStr, status |-> IF type = "payable" THEN "paid" ELSE "received"] }

\* Lines 100-122: the effect that fills the form when the modal is given an
\* item to edit, and resets it otherwise.
FormFor(type, item) ==
  IF item = NoItem THEN DefaultForm
  ELSE [ description |-> item.description, amount |-> item.amount, due_date |-> item.due_date,
         supplier |-> IF type = "payable" THEN OrEmpty(item.party) ELSE Str(0),
         customer |-> IF type = "receivable" THEN OrEmpty(item.party) ELSE Str(0),
         payment_method |-> OrEmpty(item.payment_method),
         category |-> OrEmpty(item.category),
         notes |-> OrEmpty(item.notes),
         document_number |-> OrEmpty(item.document_number),
         status |-> IF item.status \in {"paid", "received"}
                    THEN (IF type = "payable" THEN "paid" ELSE "received") ELSE "pending" ]

\* What the user types.
Descriptions == {Str(0), Padded(2, 0), Str(5), Str(501)}
Amounts ==
  { <<>>, <<"-", "5">>, <<"1", "0">>, <<"1", "2", "x">>,
    <<"9", "9", "9", "9", "9", "9", "9", "9">>,
    <<"1", "0", "0", "0", "0", "0", "0", "0", "0">> }
DueDates == {TodayText, <<>>, <<"2", "0", "2", "6", "-", "1", "-", "5">>}
PaymentMethods == {Str(0), Str(3)}
TextFields == {"supplier", "customer", "payment_method", "category", "notes", "document_number"}

\* The largest length the schema admits of a text field.
MaxLenOf(field) ==
  CASE field = "description" -> 500
    [] field \in {"supplier", "customer"} -> 255
    [] field = "notes" -> 1000
    [] OTHER -> 100

\* The forms the user can fill: at most one of the optional fields is longer
\* than its schema admits.
FormInputs(type) ==
  LET base ==
        { [ description |-> d, amount |-> a, due_date |-> dd,
            supplier |-> Str(0), customer |-> Str(0), payment_method |-> pm,
            category |-> Str(0), notes |-> Str(0), document_number |-> Str(0),
            status |-> st ] :
            d \in Descriptions, a \in Amounts, dd \in DueDates, pm \in PaymentMethods,
            st \in {"pending", IF type = "payable" THEN "paid" ELSE "received"} }
  IN base \cup {[f EXCEPT ![k] = Str(MaxLenOf(k) + 1)] : f \in base, k \in TextFields}

\* Lines 156-165: what the payable branch hands to the schema.
PayableInput(f) ==
  [ description |-> f.description, amount |-> AmountOf(f.amount), due_date |-> f.due_date,
    party |-> OrNull(f.supplier),
    payment_method |-> IF f.status \in {"paid", "received"}
                       THEN f.payment_method ELSE OrNull(f.payment_method),
    category |-> OrNull(f.category), notes |-> OrNull(f.notes),
    document_number |-> OrNull(f.document_number) ]

\* Lines 214-223: what the receivable branch hands to the schema.
ReceivableInput(f) ==
  [ description |-> f.description, amount |-> AmountOf(f.amount), due_date |-> f.due_date,
    party |-> OrNull(f.customer),
    payment_method |-> f.payment_method,
    category |-> OrNull(f.category), notes |-> OrNull(f.notes),
    document_number |-> OrNull(f.document_number) ]

Issue(field, rule) == [kind |-> "zod", field |-> field, rule |-> rule]

\* z.string().max(n).optional().nullable() on field k of x.
TooLong(x, k, name) ==
  IF ~x[k].null /\ x[k].len > MaxLenOf(name) THEN <<Issue(name, "max")>> ELSE <<>>

\* accountPayableSchema and accountReceivableSchema, which differ in the
\* name of the party only: the issues parse() finds, in the order of the keys.
SchemaIssues(x, partyName) ==
  (IF x.description.trimmed < 1 THEN <<Issue("description", "min")>> ELSE <<>>)
    \o (IF x.description.trimmed > 500 THEN <<Issue("description", "max")>> ELSE <<>>)
    \o (IF x.amount <= 0 THEN <<Issue("amount", "positive")>> ELSE <<>>)
    \o (IF x.amount > 99999999 THEN <<Issue("amount", "max")>> ELSE <<>>)
    \o (IF ~MatchesDate(x.due_date) THEN <<Issue("due_date", "regex")>> ELSE <<>>)
    \o TooLong(x, "party", partyName)
    \o TooLong(x, "payment_method", "payment_method")
    \o TooLong(x, "category", "category")
    \o TooLong(x, "notes", "notes")
    \o TooLong(x, "document_number", "document_number")

\* What parse() returns: the description trimmed.
Validated(x) == [x EXCEPT !.description = Str(x.description.trimmed)]

\* Mutant: the check of lines 169-174 is missing.
PaidNeedsMethod_Never(type, f) == FALSE

\* Lines 169-174: a payable marked paid needs a payment method.
PaidNeedsMethod(type, f) ==
  type = "payable" /\ f.status \in {"paid", "received"} /\ IsEmpty(f.payment_method)

\* Lines 176-192 and 225-240: the request to the accounts table.
AccountRequest(type, item, v, f) ==
  [ table |-> IF type = "payable" THEN "accounts_payable" ELSE "accounts_receivable",
    op |-> IF item = NoItem THEN "insert" ELSE "update",
    payment_method |-> v.payment_method,
    status |-> IF type = "payable"
               THEN (IF f.status = "paid" THEN "paid" ELSE "pending")
               ELSE (IF f.status = "received" THEN "received" ELSE "pending") ]

\* Lines 196-205 and 244-255: the cash-flow row of an account created settled.
CashRequest(type, v) ==
  [ table |-> "cash_flow", op |-> "insert", payment_method |-> v.payment_method,
    status |-> IF type = "payable" THEN "expense" ELSE "income" ]

\* The parent opens the modal for a new account or for one of its items.
OpenForm ==
  /\ ~formOpen
  /\ \E type \in {"payable", "receivable"} :
       \E item \in {NoItem} \cup Items(type) :
         /\ formType' = type
         /\ editingItem' = item
         /\ formData' = FormFor(type, item)
  /\ formOpen' = TRUE
  /\ UNCHANGED << saving, formPc, submitted, sent, formToast, attempts, besidesForm >>

\* Lines 296-481: the user fills the form the modal opened with.
EditForm ==
  /\ formOpen /\ formPc = "idle" /\ attempts = 0
  /\ formData = FormFor(formType, editingItem)
  /\ \E f \in FormInputs(formType) : formData' = f
  /\ UNCHANGED << formOpen, formType, editingItem, saving, formPc, submitted, sent, formToast,
                  attempts, besidesForm >>

\* Line 492: Cancelar.
CancelForm ==
  /\ formOpen
  /\ formOpen' = FALSE
  /\ UNCHANGED << formType, editingItem, formData, saving, formPc, submitted, sent, formToast,
                  attempts, besidesForm >>

\* Lines 151-194 and 212-242: the button calls handleSubmit, which runs to its
\* first await: the form is parsed and checked, and the account is sent to
\* the database, or a toast is shown and saving is false again.
Submit ==
  /\ formOpen /\ ~saving /\ formPc = "idle"
  /\ attempts < MaxAttempts
  /\ attempts' = attempts + 1
  /\ submitted' = formData
  /\ LET f == formData
         x == IF formType = "payable" THEN PayableInput(f) ELSE ReceivableInput(f)
         issues == SchemaIssues(x, IF formType = "payable" THEN "supplier" ELSE "customer")
     IN IF issues # <<>>
        THEN /\ formToast' = issues[1]
             /\ saving' = FALSE
             /\ UNCHANGED << formPc, sent >>
        ELSE IF PaidNeedsMethod(formType, f)
        THEN /\ formToast' = [kind |-> "payment method required"]
             /\ saving' = FALSE
             /\ UNCHANGED << formPc, sent >>
        ELSE /\ saving' = TRUE
             /\ formPc' = "account"
             /\ sent' = Append(sent, AccountRequest(formType, editingItem, Validated(x), f))
             /\ UNCHANGED formToast
  /\ UNCHANGED << formOpen, formType, editingItem, formData, besidesForm >>

\* Lines 263-265 and 273-275: the modal is closed, the form reset, and saving
\* is false again.
Saved(kind) ==
  /\ formToast' = [kind |-> kind]
  /\ formOpen' = FALSE
  /\ formData' = DefaultForm
  /\ saving' = FALSE
  /\ formPc' = "idle"

\* Lines 194-208 and 242-258: the accounts table answers.
AccountReply ==
  /\ formPc = "account"
  /\ \E ok \in BOOLEAN :
       IF ~ok
       THEN /\ formToast' = [kind |-> "save error"]
            /\ saving' = FALSE
            /\ formPc' = "idle"
            /\ UNCHANGED << formOpen, formData, sent >>
       ELSE IF editingItem # NoItem
       THEN Saved("updated") /\ UNCHANGED sent
       ELSE IF submitted.status \in {"paid", "received"}
       THEN /\ formPc' = "cash"
            /\ sent' = Append(sent, CashRequest(formType, sent[Len(sent)]))
            /\ UNCHANGED << formOpen, formData, saving, formToast >>
       ELSE Saved("created") /\ UNCHANGED sent
  /\ UNCHANGED << formType, editingItem, submitted, attempts, besidesForm >>

\* Lines 198-207 and 246-256: the cash-flow insert returns; its result is
\* not looked at.
CashReply ==
  /\ formPc = "cash"
  /\ Saved("created")
  /\ UNCHANGED << formType, editingItem, submitted, sent, attempts, besidesForm >>

FormNext == OpenForm \/ EditForm \/ CancelForm \/ Submit \/ AccountReply \/ CashReply

FormSpec == Init /\ [][FormNext]_vars

\* The text fields of an account of the type, with the largest length each
\* may have.
FieldLimits(type) ==
  [description |-> 500, payment_method |-> 100, category |-> 100, notes |-> 1000,
   document_number |-> 100]
    @@ (IF type = "payable" THEN [supplier |-> 255] ELSE [customer |-> 255])

\* The form fails the client-side validation: empty description, amount not
\* positive or too large, malformed due date, a field too long, or a payable
\* marked paid without a payment method.
ValidationFails(type, f) ==
  \/ f.description.trimmed = 0
  \/ AmountOf(f.amount) <= 0 \/ AmountOf(f.amount) > 99999999
  \/ ~MatchesDate(f.due_date)
  \/ \E k \in DOMAIN FieldLimits(type) : f[k].trimmed > FieldLimits(type)[k]
  \/ type = "payable" /\ f.status = "paid" /\ f.payment_method.len = 0

\* handleSubmit is called in this step.
Submits == attempts' = attempts + 1

\* C22: a call of handleSubmit on a form that fails the validation sends
\* nothing to the database, leaves the modal open and leaves saving false;
\* a request is sent only by a call on a form that passes, or (the
\* cash-flow row) after the account was saved.
C22_InvalidFormSendsNothing ==
  [][ /\ (Submits /\ ValidationFails(formType, formData)) =>
           /\ sent' = sent
           /\ formOpen' /\ formOpen
           /\ saving' = FALSE
           /\ formPc' = "idle"
           /\ formToast'.kind \in {"zod", "payment method required"}
      /\ sent' # sent =>
           \/ Submits /\ ~ValidationFails(formType, formData)
           \/ formPc = "account" /\ sent'[Len(sent')].table = "cash_flow"
    ]_vars

\* A payable marked paid without a payment method, otherwise valid, was
\* submitted: nothing was sent and the modal is open.
C22_Witness ==
  /\ attempts = 1
  /\ formType = "payable"
  /\ submitted.status = "paid" /\ submitted.payment_method.len = 0
  /\ submitted.description.trimmed > 0 /\ AmountOf(submitted.amount) > 0
  /\ formToast.kind = "payment method required"
  /\ sent = <<>>
  /\ formOpen /\ ~saving

\* C23 as stated: no request handleSubmit sends to accounts_receivable, insert
\* or update, carries an empty payment method.
C23_AsStated ==
  \A i \in 1..Len(sent) :
    sent[i].table = "accounts_receivable" =>
      ~sent[i].payment_method.null /\ sent[i].payment_method.len > 0

\* -------------------------------------------------------- the payment modal

\* The number of times handleSubmit of the payment modal is called.
MaxPayments == 3

\* Everything but the payment modal.
besidesPaid ==
  << jobVars, dashVars, formVars, walletVars, refreshVars, loginVars, routeVars >>

\* The accounts the page offers to pay: the pending ones (lines 698-700 of
\* the wallet page).
PayableItems(type) == {it \in Items(type) : it.status = "pending"}

\* What the user types: the amount field is a number input, whose value is
\* empty or a number.
PaidAmounts == {<<>>, <<"0">>, <<"-", "5">>, <<"1", "0">>}
PaidForms ==
  [paid_amount : PaidAmounts, payment_method : {Str(3)}]
    \cup [paid_amount : {<<>>, <<"1", "0">>}, payment_method : {Str(0)}]

\* Line 146: !formData.payment_method.
MethodMissing(f) == IsEmpty(f.payment_method)

\* Mutant: only an empty amount is refused.
AmountNotPositive_OnlyEmpty(f) == f.paid_amount = <<>>

\* Line 151: !formData.paid_amount || parseFloat(formData.paid_amount) <= 0.
AmountNotPositive(f) ==
  \/ f.paid_amount = <<>>
  \/ (~ParseFloat(f.paid_amount).nan /\ ParseFloat(f.paid_amount).val <= 0)

\* Lines 160-169 and 186-195: the update of the account.
PaidUpdate(type, item, f) ==
  [ table |-> IF type = "payable" THEN "accounts_payable" ELSE "accounts_receivable",
    op |-> "update", id |-> item.id,
    status |-> IF type = "payable" THEN "paid" ELSE "received",
    payment_method |-> f.payment_method ]

\* Lines 173-182 and 199-208: the cash-flow entry.
PaidCash(type, item, f) ==
  [ table |-> "cash_flow", op |-> "insert", id |-> item.id,
    status |-> IF type = "payable" THEN "expense" ELSE "income",
    payment_method |-> f.payment_method ]

\* The record of a call of handleSubmit.
CallOf(item, f) ==
  [ item |-> item, form |-> f, updated |-> "none", cash |-> FALSE, success |-> FALSE ]

\* The record of the call in progress, with one of its fields set.
Logged(field, value) ==
  [paidLog EXCEPT ![Len(paidLog)] = [@ EXCEPT ![field] = value]]

\* Lines 402-406 of the wallet page: Pagar or Receber on a pending account.
OpenPaid ==
  /\ ~paidOpen
  /\ \E type \in {"payable", "receivable"} :
       \E item \in PayableItems(type) :
         /\ paidType' = type
         /\ paidItem' = item
  /\ paidOpen' = TRUE
  /\ UNCHANGED << paidForm, paidSaving, paidPc, paidSent, paidLog, paidToast, besidesPaid >>

\* Lines 243-294: the user fills the amount and the payment method.
EditPaid ==
  /\ paidOpen /\ paidPc = "idle"
  /\ \E f \in PaidForms : paidForm' = f
  /\ UNCHANGED << paidOpen, paidType, paidItem, paidSaving, paidPc, paidSent, paidLog,
                  paidToast, besidesPaid >>

\* Line 301: Cancelar.
CancelPaid ==
  /\ paidOpen
  /\ paidOpen' = FALSE
  /\ UNCHANGED << paidType, paidItem, paidForm, paidSaving, paidPc, paidSent, paidLog,
                  paidToast, besidesPaid >>

\* Lines 143-169 and 186-195: handleSubmit runs to its first await: it
\* returns when there is no item, shows a toast when a field is refused, and
\* sends the update of the account otherwise.
Confirm ==
  /\ paidItem = NoItem \/ paidOpen
  /\ ~paidSaving /\ paidPc = "idle"
  /\ Len(paidLog) < MaxPayments
  /\ paidLog' = Append(paidLog, CallOf(paidItem, paidForm))
  /\ IF paidItem = NoItem
     THEN UNCHANGED << paidSaving, paidPc, paidSent, paidToast >>
     ELSE IF MethodMissing(paidForm)
     THEN /\ paidToast' = [kind |-> "payment method required"]
          /\ UNCHANGED << paidSaving, paidPc, paidSent >>
     ELSE IF AmountNotPositive(paidForm)
     THEN /\ paidToast' = [kind |-> "amount must be positive"]
          /\ UNCHANGED << paidSaving, paidPc, paidSent >>
     ELSE /\ paidSaving' = TRUE
          /\ paidPc' = "update"
          /\ paidSent' = Append(paidSent, PaidUpdate(paidType, paidItem, paidForm))
          /\ UNCHANGED paidToast
  /\ UNCHANGED << paidOpen, paidType, paidItem, paidForm, besidesPaid >>

\* Lines 171-182, 197-208 and 214-218: the accounts table answers; on an
\* error the catch shows a toast, otherwise the cash-flow entry is sent.
UpdateReply ==
  /\ paidPc = "update"
  /\ \E ok \in BOOLEAN :
       IF ok
       THEN /\ paidPc' = "cash"
            /\ paidSent' = Append(paidSent, PaidCash(paidType, paidLog[Len(paidLog)].item,
                                                     paidLog[Len(paidLog)].form))
            /\ paidLog' = [Logged("updated", "ok") EXCEPT ![Len(paidLog)].cash = TRUE]
            /\ UNCHANGED << paidSaving, paidToast >>
       ELSE /\ paidPc' = "idle"
            /\ paidSaving' = FALSE
            /\ paidToast' = [kind |-> "update error"]
            /\ paidLog' = Logged("updated", "error")
            /\ UNCHANGED paidSent
  /\ UNCHANGED << paidOpen, paidType, paidItem, paidForm, besidesPaid >>

\* Lines 184, 210-213 and 216-218: the cash-flow insert returns, its result
\* not looked at; the modal is closed and onSuccess called.
PaidCashReply ==
  /\ paidPc = "cash"
  /\ paidPc' = "idle"
  /\ paidSaving' = FALSE
  /\ paidOpen' = FALSE
  /\ paidToast' = [kind |-> "marked"]
  /\ paidLog' = Logged("success", TRUE)
  /\ UNCHANGED << paidType, paidItem, paidForm, paidSent, besidesPaid >>

PaidNext == OpenPaid \/ EditPaid \/ CancelPaid \/ Confirm \/ UpdateReply \/ PaidCashReply

PaidSpec == Init /\ [][PaidNext]_vars

\* The call had nothing to send: no item, no payment method, or a paid
\* amount that is not above zero.
Refused(c) ==
  \/ c.item = NoItem
  \/ IsEmpty(c.form.payment_method)
  \/ ParseFloat(c.form.paid_amount).nan
  \/ ParseFloat(c.form.paid_amount).val <= 0

\* The requests sent to the cash-flow table, and the account updates before
\* the i-th request.
CashSent == {i \in 1..Len(paidSent) : paidSent[i].table = "cash_flow"}

\* C24: a cash-flow entry is inserted only after the update of the account has
\* succeeded, directly after it and for the same account; a call with no
\* item, no payment method or a paid amount not above zero, and a call whose
\* update failed, insert no cash-flow entry and do not call onSuccess.
C24_CashOnlyAfterUpdate ==
  /\ \A i \in CashSent :
       /\ i > 1
       /\ paidSent[i - 1].op = "update" /\ paidSent[i - 1].table # "cash_flow"
       /\ paidSent[i - 1].id = paidSent[i].id
  /\ Cardinality(CashSent) = Cardinality({k \in 1..Len(paidLog) : paidLog[k].updated = "ok"})
  /\ \A k \in 1..Len(paidLog) :
       LET c == paidLog[k]
       IN /\ c.cash => c.updated = "ok"
          /\ c.success => c.updated = "ok" /\ c.cash
          /\ Refused(c) => c.updated = "none" /\ ~c.cash /\ ~c.success
          /\ c.updated = "error" => ~c.cash /\ ~c.success

\* A call refused for its amount, then a call whose update failed, then a
\* call that went through.
C24_Witness ==
  /\ Len(paidLog) = 3
  /\ paidLog[1].item # NoItem /\ ~IsEmpty(paidLog[1].form.payment_method)
  /\ paidLog[1].updated = "none"
  /\ paidLog[2].updated = "error"
  /\ paidLog[3].success
  /\ Cardinality(CashSent) = 1

\* ---------------------------------------------------------- the wallet page

\* The number of times handleDelete is called.
MaxDeletes == 3

\* Everything but the wallet page and its tables.
besidesWallet ==
  << jobVars, dashVars, formVars, paidVars, refreshVars, loginVars, routeVars >>

\* The cash-flow entries .eq('reference_id', id).eq('reference_type', table)
\* selects.
Referencing(acc) ==
  {c \in cashRows : c.reference_id = acc.id /\ c.reference_type = acc.table}

\* The record of the k-th call, moved to another step.
At(k, step) == [deletes EXCEPT ![k].pc = step]

InFlight(step) == {k \in 1..Len(deletes) : deletes[k].pc = step}

\* WalletPJ lines 134-137, WalletPF lines 387-392: the trash button of a
\* listed account calls handleDelete, which asks for confirmation, returns
\* when it is declined and sends the delete of the cash-flow entries
\* otherwise.
ClickDelete ==
  /\ Len(deletes) < MaxDeletes
  /\ \E acc \in walletList :
       \E confirmed \in BOOLEAN :
         deletes' = Append(deletes, [row |-> acc, cashDeleted |-> FALSE,
                                     pc |-> IF confirmed THEN "cash" ELSE "declined"])
  /\ UNCHANGED << accountRows, cashRows, walletList, walletLoads, walletToast, besidesWallet >>

\* WalletPJ lines 137-138, WalletPF lines 392-393: the cash-flow delete
\* returns, with the rows deleted or with an error that is not looked at, and
\* the delete of the account is sent.
CashDeleteReply ==
  \E k \in InFlight("cash") :
    /\ \E ok \in BOOLEAN :
         /\ cashRows' = IF ok THEN cashRows \ Referencing(deletes[k].row) ELSE cashRows
         /\ deletes' = [At(k, "account") EXCEPT ![k].cashDeleted = ok]
    /\ UNCHANGED << accountRows, walletList, walletLoads, walletToast, besidesWallet >>

\* WalletPJ lines 138-142, WalletPF lines 393-399: the account delete
\* returns; an error is thrown to the catch, which shows a toast, and
\* otherwise the success toast is shown and loadData called.
AccountDeleteReply ==
  \E k \in InFlight("account") :
    /\ \E ok \in BOOLEAN :
         IF ok
         THEN /\ accountRows' = accountRows \ {deletes[k].row}
              /\ deletes' = At(k, "done")
              /\ walletToast' = [kind |-> "deleted"]
              /\ walletLoads' = walletLoads + 1
         ELSE /\ deletes' = At(k, "failed")
              /\ walletToast' = [kind |-> "delete error"]
              /\ UNCHANGED << accountRows, walletLoads >>
    /\ UNCHANGED << cashRows, walletList, besidesWallet >>

\* WalletPJ lines 84-107, WalletPF lines 294-330: loadData reads the accounts.
WalletLoaded ==
  /\ walletLoads > 0
  /\ walletLoads' = walletLoads - 1
  /\ walletList' = accountRows
  /\ UNCHANGED << accountRows, cashRows, deletes, walletToast, besidesWallet >>

WalletNext == ClickDelete \/ CashDeleteReply \/ AccountDeleteReply \/ WalletLoaded

WalletSpec == Init /\ [][WalletNext]_vars

\* C25 as stated: once a handleDelete has completed successfully, the account
\* it deleted is gone and no cash-flow entry refers to it.
C25_AsStated ==
  \A k \in InFlight("done") :
    /\ deletes[k].row \notin accountRows
    /\ Referencing(deletes[k].row) = {}

\* --------------------------------------------------------- the data refresh

\* The number of refreshes started.
MaxRefreshes == 3

\* Everything but the data refresh.
besidesRefresh ==
  << jobVars, dashVars, formVars, paidVars, walletVars, loginVars, routeVars >>

\* Lines 20, 33 and 71, in units of 30 seconds: the interval of 5 minutes,
\* the 30 seconds within which an unforced refresh is skipped, and the minute
\* a focus waits for.
RefreshInterval == 10
SkipWindow == 1
FocusWindow == 2

\* Lines 40-43: the pair of API calls of a refresh.
ApiCalls == {"getAllProductsForStats", "calculateABCCurve"}

\* Lines 27-38: refreshData returns without a refresh when one is running or,
\* unless forced, when the last one began within 30 seconds.
Skips(i, force) ==
  \/ isRefreshing[i]
  \/ (~force /\ refreshClock - lastRefresh[i] < SkipWindow)

\* Lines 27-43: refreshData(force) of instance i, up to its await.
RefreshData(i, force) ==
  IF Skips(i, force)
  THEN UNCHANGED << isRefreshing, lastRefresh, refreshes >>
  ELSE /\ isRefreshing' = [isRefreshing EXCEPT ![i] = TRUE]
       /\ lastRefresh' = [lastRefresh EXCEPT ![i] = refreshClock]
       /\ refreshes' = Append(refreshes, [inst |-> i, pending |-> ApiCalls, awaited |-> TRUE])

\* MainLayout lines 13-17 and useDataRefresh lines 52-67: a page mounts its
\* layout: a new instance of the hook, which refreshes and sets the interval.
MountLayout ==
  /\ hookId = 0 /\ hooks < MaxMounts
  /\ Len(refreshes) < MaxRefreshes
  /\ hooks' = hooks + 1
  /\ hookId' = hooks + 1
  /\ intervalAt' = refreshClock + RefreshInterval
  /\ RefreshData(hooks + 1, TRUE)
  /\ UNCHANGED << refreshClock, besidesRefresh >>

\* Lines 66 and 81: the page is left; the interval and the focus listener
\* are removed.
UnmountLayout ==
  /\ hookId # 0
  /\ hookId' = 0
  /\ UNCHANGED << hooks, isRefreshing, lastRefresh, intervalAt, refreshClock, refreshes,
                  besidesRefresh >>

\* Lines 62-64: the interval fires.
IntervalFires ==
  /\ hookId # 0 /\ refreshClock >= intervalAt
  /\ Len(refreshes) < MaxRefreshes
  /\ intervalAt' = intervalAt + RefreshInterval
  /\ RefreshData(hookId, FALSE)
  /\ UNCHANGED << hooks, hookId, refreshClock, besidesRefresh >>

\* Lines 73-78: the window gets the focus.
HandleFocus ==
  /\ hookId # 0
  /\ Len(refreshes) < MaxRefreshes
  /\ IF refreshClock - lastRefresh[hookId] > FocusWindow
     THEN RefreshData(hookId, FALSE)
     ELSE UNCHANGED << isRefreshing, lastRefresh, refreshes >>
  /\ UNCHANGED << hooks, hookId, intervalAt, refreshClock, besidesRefresh >>

\* Lines 84-87: a component calls the refreshData the hook returns.
ManualRefresh ==
  /\ hookId # 0
  /\ Len(refreshes) < MaxRefreshes
  /\ \E force \in BOOLEAN : RefreshData(hookId, force)
  /\ UNCHANGED << hooks, hookId, intervalAt, refreshClock, besidesRefresh >>

\* Lines 39-48: an API call of a refresh returns. Promise.all settles when
\* the last call has resolved or as soon as one is rejected; the catch logs
\* the error and the finally block clears the flag.
ApiReply ==
  \E k \in 1..Len(refreshes) :
    \E call \in refreshes[k].pending :
      \E ok \in BOOLEAN :
        LET left == refreshes[k].pending \ {call}
            settles == refreshes[k].awaited /\ (~ok \/ left = {})
        IN /\ refreshes' = [refreshes EXCEPT ![k] =
                              [@ EXCEPT !.pending = left, !.awaited = @ /\ ~settles]]
           /\ isRefreshing' = IF settles THEN [isRefreshing EXCEPT ![refreshes[k].inst] = FALSE]
                              ELSE isRefreshing
           /\ UNCHANGED << hooks, hookId, lastRefresh, intervalAt, refreshClock,
                           besidesRefresh >>

\* Time passes, up to the moment the interval is due.
RefreshTick ==
  /\ refreshClock < MaxClock
  /\ hookId # 0 => refreshClock < intervalAt
  /\ refreshClock' = refreshClock + 1
  /\ UNCHANGED << hooks, hookId, isRefreshing, lastRefresh, intervalAt, refreshes,
                  besidesRefresh >>

RefreshNext ==
  \/ MountLayout \/ UnmountLayout \/ IntervalFires \/ HandleFocus \/ ManualRefresh
  \/ ApiReply \/ RefreshTick

RefreshSpec == Init /\ [][RefreshNext]_vars

\* The refreshes with an API call still running.
Running == {k \in 1..Len(refreshes) : refreshes[k].pending # {}}

\* C26 as stated: at most one refresh has API calls in flight, and the flag of
\* an instance is set exactly while a refreshData of it awaits its calls.
C26_AsStated ==
  /\ Cardinality(Running) <= 1
  /\ \A i \in Instances :
       isRefreshing[i] <=> \E k \in 1..Len(refreshes) :
                             refreshes[k].inst = i /\ refreshes[k].awaited

\* ------------------------------------------------------------ the login page

\* The number of sign-in calls and the minutes observed.
MaxSignIns == 6
MaxLoginClock == 16

\* Everything but the login page.
besidesLogin ==
  << jobVars, dashVars, formVars, paidVars, walletVars, refreshVars, routeVars >>

\* Auth lines 17-18; the duration is in minutes.
MAX_ATTEMPTS == 5
LOCKOUT_DURATION == 15

\* String(n): the decimal text of a number.
RECURSIVE StringOf(_)
StringOf(n) ==
  IF n < 10 THEN << Digits[n + 1] >>
  ELSE Append(StringOf(n \div 10), Digits[(n % 10) + 1])

\* parseInt(s, 10) of a text without spaces.
ParseInt(s) == ParseFloat(s).val

\* Lines 11-14: authSchema, by what it reads of the fields.
CredentialInputs == [email : {"malformed", "ok"}, password : {5, 8}]
ValidCredentials(c) == c.email = "ok" /\ c.password >= 6 /\ c.password <= 128

\* Mutant: the lockout is not looked at.
Locked_Never(until, time) == FALSE

\* Lines 90 and 133: lockedUntil && lockedUntil > Date.now().
Locked(until, time) == until # 0 /\ until > time

\* Mutant: the lockout is set one attempt late.
ReachedMax_Late(n) == n > MAX_ATTEMPTS

\* Line 112: newAttempts >= MAX_ATTEMPTS.
ReachedMax(n) == n >= MAX_ATTEMPTS

\* Lines 43-58: the mount effect reads the session storage: a lockout that
\* lies in the future is restored, one that has passed is removed with the
\* attempts, and the attempts that are then stored are restored.
MountEffect ==
  LET expired == storedLockout # <<>> /\ ~(ParseInt(storedLockout) > loginClock)
      kept == IF expired THEN <<>> ELSE storedAttempts
  IN /\ lockedUntil' = IF storedLockout # <<>> /\ ~expired THEN ParseInt(storedLockout) ELSE 0
     /\ storedLockout' = IF expired THEN <<>> ELSE storedLockout
     /\ storedAttempts' = kept
     /\ loginAttempts' = IF kept # <<>> THEN ParseInt(kept) ELSE 0

\* The page's state is gone with the page: lines 21-26 give it anew.
PageReset ==
  /\ credentials' = NoCredentials
  /\ loginLoading' = FALSE
  /\ loginPc' = "idle"
  /\ heldAttempts' = 0
  /\ loginToast' = NoToast

\* The page is reloaded or left; a handleLogin that awaits ends with it.
LeaveLogin ==
  /\ authMounted
  /\ authMounted' = FALSE
  /\ PageReset
  /\ loginAttempts' = 0 /\ lockedUntil' = 0
  /\ UNCHANGED << signedIn, storedAttempts, storedLockout, loginClock, signIns, besidesLogin >>

\* Lines 21-58: the login page is shown to a user without a session.
OpenLogin ==
  /\ ~authMounted /\ ~signedIn
  /\ authMounted' = TRUE
  /\ MountEffect
  /\ UNCHANGED << signedIn, credentials, loginLoading, loginPc, heldAttempts, loginClock,
                  signIns, loginToast, besidesLogin >>

\* The user signs out of the application.
SignOut ==
  /\ signedIn
  /\ signedIn' = FALSE
  /\ UNCHANGED << authMounted, credentials, loginLoading, loginAttempts, lockedUntil,
                  storedAttempts, storedLockout, loginPc, heldAttempts, loginClock, signIns,
                  loginToast, besidesLogin >>

\* Lines 213-234: the user types an email and a password; the fields are
\* disabled while the page shows the lockout.
TypeCredentials ==
  /\ authMounted /\ ~Locked(lockedUntil, loginClock)
  /\ \E c \in CredentialInputs : credentials' = c
  /\ UNCHANGED << authMounted, signedIn, loginLoading, loginAttempts, lockedUntil,
                  storedAttempts, storedLockout, loginPc, heldAttempts, loginClock, signIns,
                  loginToast, besidesLogin >>

\* Lines 86-106: the form is submitted and handleLogin runs to its await: a
\* toast when the page is locked or the fields are refused, the sign-in
\* otherwise.
HandleLogin ==
  /\ authMounted /\ ~loginLoading
  /\ signIns < MaxSignIns
  /\ IF Locked(lockedUntil, loginClock)
     THEN /\ loginToast' = [kind |-> "locked out"]
          /\ UNCHANGED << loginLoading, loginPc, heldAttempts, signIns >>
     ELSE IF ~ValidCredentials(credentials)
     THEN /\ loginToast' = [kind |-> "invalid fields"]
          /\ UNCHANGED << loginLoading, loginPc, heldAttempts, signIns >>
     ELSE /\ loginLoading' = TRUE
          /\ loginPc' = "signin"
          /\ heldAttempts' = loginAttempts
          /\ signIns' = signIns + 1
          /\ UNCHANGED loginToast
  /\ UNCHANGED << authMounted, signedIn, credentials, loginAttempts, lockedUntil,
                  storedAttempts, storedLockout, loginClock, besidesLogin >>

\* Lines 103-130: the sign-in returns. An error counts an attempt, stores it
\* and, at the maximum, locks the page; a session removes what was stored
\* and the application is entered.
SignInReply ==
  /\ loginPc = "signin"
  /\ \E outcome \in {"session", "invalid credentials", "error"} :
       IF outcome = "session"
       THEN /\ storedAttempts' = <<>>
            /\ storedLockout' = <<>>
            /\ signedIn' = TRUE
            /\ authMounted' = FALSE
            /\ PageReset
            /\ loginAttempts' = 0 /\ lockedUntil' = 0
       ELSE LET newAttempts == heldAttempts + 1
            IN /\ loginAttempts' = newAttempts
               /\ storedAttempts' = StringOf(newAttempts)
               /\ IF ReachedMax(newAttempts)
                  THEN /\ lockedUntil' = loginClock + LOCKOUT_DURATION
                       /\ storedLockout' = StringOf(loginClock + LOCKOUT_DURATION)
                       /\ loginToast' = [kind |-> "blocked"]
                  ELSE /\ loginToast' = [kind |-> outcome]
                       /\ UNCHANGED << lockedUntil, storedLockout >>
               /\ loginLoading' = FALSE
               /\ loginPc' = "idle"
               /\ UNCHANGED << authMounted, signedIn, credentials, heldAttempts >>
  /\ UNCHANGED << loginClock, signIns, besidesLogin >>

\* A minute passes. Lines 66-84: while the page is locked the countdown
\* runs every second, so within the minute in which the lockout ends it
\* clears the lockout and the attempts, in the state and in the storage.
LoginTick ==
  /\ loginClock < MaxLoginClock
  /\ loginClock' = loginClock + 1
  /\ IF authMounted /\ lockedUntil # 0 /\ lockedUntil <= loginClock + 1
     THEN /\ lockedUntil' = 0
          /\ loginAttempts' = 0
          /\ storedLockout' = <<>>
          /\ storedAttempts' = <<>>
     ELSE UNCHANGED << lockedUntil, loginAttempts, storedLockout, storedAttempts >>
  /\ UNCHANGED << authMounted, signedIn, credentials, loginLoading, loginPc, heldAttempts,
                  signIns, loginToast, besidesLogin >>

LoginNext ==
  \/ LeaveLogin \/ OpenLogin \/ SignOut \/ TypeCredentials \/ HandleLogin \/ SignInReply
  \/ LoginTick

LoginSpec == Init /\ [][LoginNext]_vars

\* A lockout is active: the page holds one that lies in the future, or the
\* browser session has stored one that does.
LockoutActive ==
  \/ (lockedUntil # 0 /\ lockedUntil > loginClock)
  \/ (storedLockout # <<>> /\ ParseInt(storedLockout) > loginClock)

\* C27: while a lockout is active no sign-in is called or awaited and the
\* attempts stay what set the lockout, in the state and in the storage, in
\* every step of the page, be it handleLogin or the mount that follows a
\* reload; a page that is shown during a lockout stored by the browser
\* session holds that lockout.
C27_NoSignInWhileLocked ==
  /\ [](LockoutActive => loginPc = "idle")
  /\ [](authMounted /\ storedLockout # <<>> => lockedUntil = ParseInt(storedLockout))
  /\ [][LockoutActive /\ loginClock' = loginClock /\ authMounted'
          => /\ signIns' = signIns
             /\ loginPc' = "idle"
             /\ loginAttempts' = MAX_ATTEMPTS
             /\ storedAttempts' = storedAttempts
             /\ LockoutActive']_vars

\* handleLogin has been called, and refused, on a page that was reloaded
\* during the lockout: no credentials have been typed since.
C27_Witness ==
  /\ authMounted /\ LockoutActive
  /\ credentials = NoCredentials
  /\ loginToast = [kind |-> "locked out"]
  /\ signIns = MAX_ATTEMPTS

\* A sign-in has failed in this step.
SignInFails ==
  /\ loginPc = "signin"
  /\ loginToast' # loginToast
  /\ loginToast'.kind \in {"blocked", "invalid credentials", "error"}

\* The lockout the page holds ends in this step.
LockoutEnds == authMounted /\ lockedUntil # 0 /\ loginClock' >= lockedUntil

\* C28: a failed sign-in adds one to the attempts, in the state and in the
\* storage; the fifth sets and stores a lockout of 15 minutes from then, and
\* fewer set none; the attempts never exceed 5; the page holds no lockout
\* that has ended: when it ends the lockout and the attempts are cleared in
\* the state and in the storage, and handleLogin signs in again.
C28_RateLimiting ==
  /\ [](loginAttempts <= MAX_ATTEMPTS)
  /\ [](storedAttempts # <<>> => ParseInt(storedAttempts) <= MAX_ATTEMPTS)
  /\ [](authMounted /\ lockedUntil # 0 => lockedUntil > loginClock)
  /\ [](authMounted => (lockedUntil # 0 <=> loginAttempts = MAX_ATTEMPTS))
  /\ [][SignInFails
          => /\ loginAttempts' = loginAttempts + 1
             /\ storedAttempts' = StringOf(loginAttempts')
             /\ IF loginAttempts' = MAX_ATTEMPTS
                THEN /\ lockedUntil' = loginClock + LOCKOUT_DURATION
                     /\ storedLockout' = StringOf(lockedUntil')
                ELSE lockedUntil' = 0 /\ storedLockout' = <<>>]_vars
  /\ [][LockoutEnds
          => /\ lockedUntil' = 0 /\ loginAttempts' = 0
             /\ storedLockout' = <<>> /\ storedAttempts' = <<>>]_vars
  /\ [][loginPc' = "signin" /\ loginPc = "idle"
          => ~Locked(lockedUntil, loginClock) /\ signIns' = signIns + 1]_vars

\* Five sign-ins failed, the lockout they set has ended, and the sixth
\* sign-in is on its way.
C28_Witness ==
  /\ signIns = MAX_ATTEMPTS + 1
  /\ loginToast = [kind |-> "blocked"]
  /\ loginPc = "signin"
  /\ loginAttempts = 0 /\ lockedUntil = 0
  /\ storedAttempts = <<>> /\ storedLockout = <<>>

\* ------------------------------------------------------- the protected route

\* The number of timedOut set and of short waits.
MaxTimers == 2
MaxShortWaits == 1

\* Everything but the protected route.
besidesRoute == << jobVars, dashVars, formVars, paidVars, walletVars, refreshVars, loginVars >>

\* ProtectedRoute lines 7 and 73, in seconds: the timeout of 10 minutes and
\* the second within which activity is not counted again.
SESSION_TIMEOUT == 600
THROTTLE == 1

\* clearTimeout(timeoutRef.current): the timers left when the one the
\* instance's ref names is cleared.
Cleared(i) == {t \in timers : t.id # timeoutRef[i]}

\* Lines 24-35: resetTimer of instance i.
ResetTimer(i) ==
  /\ lastActivity' = [lastActivity EXCEPT ![i] = routeClock]
  /\ timers' = Cleared(i) \cup
                 {[id |-> nextTimer + 1, inst |-> i, at |-> routeClock + SESSION_TIMEOUT]}
  /\ timeoutRef' = [timeoutRef EXCEPT ![i] = nextTimer + 1]
  /\ nextTimer' = nextTimer + 1
  /\ lastReset' = routeClock

\* Lines 41-47 and 51-57: the callback of the auth listener and of getSession;
\* setting the state of an unmounted instance does nothing.
Receive(i, session) ==
  /\ heldSession' = IF i = routeId THEN [heldSession EXCEPT ![i] = session] ELSE heldSession
  /\ routeLoading' = IF i = routeId THEN [routeLoading EXCEPT ![i] = FALSE] ELSE routeLoading
  /\ IF session THEN ResetTimer(i)
     ELSE UNCHANGED << lastActivity, timers, timeoutRef, nextTimer, lastReset >>

\* Mutant: the loading state is not looked at.
Render_SessionOnly(isLoading, session) == IF session THEN "children" ELSE "redirect"

\* Lines 93-106: what the route renders.
Render(isLoading, session) ==
  IF isLoading THEN "spinner" ELSE IF ~session THEN "redirect" ELSE "children"

Rendered(i) == Render(routeLoading[i], heldSession[i])

\* Lines 10-13 and 37-57: a protected route is mounted: loading, without a
\* session; it listens to the auth client and asks it for the session.
MountRoute ==
  /\ routeId = 0 /\ routes < MaxRouteMounts
  /\ routes' = routes + 1
  /\ routeId' = routes + 1
  /\ lastActivity' = [lastActivity EXCEPT ![routes + 1] = routeClock]
  /\ sessionAsked' = [sessionAsked EXCEPT ![routes + 1] = TRUE]
  /\ UNCHANGED << heldSession, routeLoading, timeoutRef, clientSession, timers, nextTimer,
                  signingOut, routeClock, shortWaits, lastReset, timedOut, besidesRoute >>

\* Lines 59-64: the route is unmounted, by the redirect it rendered or by a
\* change of page; the listener is removed and the timer of the ref cleared.
UnmountRoute ==
  /\ routeId # 0
  /\ routeId' = 0
  /\ timers' = Cleared(routeId)
  /\ heldSession' = [heldSession EXCEPT ![routeId] = FALSE]
  /\ routeLoading' = [routeLoading EXCEPT ![routeId] = TRUE]
  /\ UNCHANGED << routes, timeoutRef, lastActivity, sessionAsked,
                  clientSession, nextTimer, signingOut, routeClock, shortWaits, lastReset,
                  timedOut, besidesRoute >>

\* Lines 39-48: the auth client's session changes or is announced again (a
\* sign-in or sign-out elsewhere, a refreshed token), and the listener of the
\* mounted route is called.
AuthChange ==
  /\ nextTimer < MaxTimers
  /\ \E session \in BOOLEAN :
       /\ clientSession' = session
       /\ IF routeId # 0 THEN Receive(routeId, session)
          ELSE UNCHANGED << heldSession, routeLoading, lastActivity, timers, timeoutRef,
                            nextTimer, lastReset >>
  /\ UNCHANGED << routes, routeId, sessionAsked, signingOut, routeClock, shortWaits,
                  timedOut, besidesRoute >>

\* Lines 51-57: getSession() of an instance resolves, be the instance still
\* mounted or not: the cleanup does not cancel it.
GetSessionReply ==
  /\ nextTimer < MaxTimers
  /\ \E i \in RouteInstances :
       /\ sessionAsked[i]
       /\ sessionAsked' = [sessionAsked EXCEPT ![i] = FALSE]
       /\ Receive(i, clientSession)
  /\ UNCHANGED << routes, routeId, clientSession, signingOut, routeClock, shortWaits,
                  timedOut, besidesRoute >>

\* Lines 68-90: handleActivity, which listens while the route holds a
\* session.
UserActivity ==
  /\ routeId # 0 /\ heldSession[routeId]
  /\ nextTimer < MaxTimers
  /\ IF routeClock - lastActivity[routeId] > THROTTLE
     THEN ResetTimer(routeId)
     ELSE UNCHANGED << lastActivity, timers, timeoutRef, nextTimer, lastReset >>
  /\ UNCHANGED << routes, routeId, heldSession, routeLoading, sessionAsked, clientSession,
                  signingOut, routeClock, shortWaits, timedOut, besidesRoute >>

\* Lines 14-19 and 31-33: a timeout is due and calls handleLogout(true), which
\* clears the timer of the ref and calls signOut().
TimeoutFires ==
  /\ \E t \in timers :
       /\ routeClock >= t.at
       /\ timers' = {u \in timers : u # t /\ u.id # timeoutRef[t.inst]}
       /\ timedOut' = [inst |-> t.inst, at |-> routeClock, lastReset |-> lastReset]
  /\ signingOut' = signingOut + 1
  /\ UNCHANGED << routes, routeId, heldSession, routeLoading, timeoutRef, lastActivity,
                  sessionAsked, clientSession, nextTimer, routeClock, shortWaits, lastReset,
                  besidesRoute >>

\* Lines 19-22: signOut() returns; when it has ended the session the listener
\* of the mounted route is called without one.
SignOutReply ==
  /\ signingOut > 0
  /\ signingOut' = signingOut - 1
  /\ \E ended \in BOOLEAN :
       IF ended /\ clientSession
       THEN /\ clientSession' = FALSE
            /\ IF routeId # 0
               THEN /\ heldSession' = [heldSession EXCEPT ![routeId] = FALSE]
                    /\ routeLoading' = [routeLoading EXCEPT ![routeId] = FALSE]
               ELSE UNCHANGED << heldSession, routeLoading >>
       ELSE UNCHANGED << clientSession, heldSession, routeLoading >>
  /\ UNCHANGED << routes, routeId, timeoutRef, lastActivity, sessionAsked, timers, nextTimer,
                  routeClock, shortWaits, lastReset, timedOut, besidesRoute >>

\* A second or two pass, no timeout being due before.
ShortWait ==
  /\ shortWaits < MaxShortWaits
  /\ shortWaits' = shortWaits + 1
  /\ \E d \in {1, 2} :
       /\ \A t \in timers : routeClock + d <= t.at
       /\ routeClock' = routeClock + d
  /\ UNCHANGED << routes, routeId, heldSession, routeLoading, timeoutRef, lastActivity,
                  sessionAsked, clientSession, timers, nextTimer, signingOut, lastReset,
                  timedOut, besidesRoute >>

\* Time passes until the next timeout is due.
LongWait ==
  /\ \E t \in timers :
       /\ t.at > routeClock
       /\ \A u \in timers : t.at <= u.at
       /\ routeClock' = t.at
  /\ UNCHANGED << routes, routeId, heldSession, routeLoading, timeoutRef, lastActivity,
                  sessionAsked, clientSession, timers, nextTimer, signingOut, shortWaits,
                  lastReset, timedOut, besidesRoute >>

RouteNext ==
  \/ MountRoute \/ UnmountRoute \/ AuthChange \/ GetSessionReply \/ UserActivity
  \/ TimeoutFires \/ SignOutReply \/ ShortWait \/ LongWait

RouteSpec == Init /\ [][RouteNext]_vars

\* C29: the mounted route shows the spinner while it is loading, the redirect
\* when it has loaded and holds no session, and its children only when it has
\* loaded and holds a session, which is only while the auth client holds
\* one: a change to no session leaves no children rendered. Loading, once
\* finished, does not start again.
C29_ChildrenOnlyWithSession ==
  /\ [](routeId # 0 =>
          /\ routeLoading[routeId] => Rendered(routeId) = "spinner"
          /\ ~routeLoading[routeId] /\ ~heldSession[routeId] => Rendered(routeId) = "redirect"
          /\ Rendered(routeId) = "children" =>
               ~routeLoading[routeId] /\ heldSession[routeId] /\ clientSession)
  /\ [][routeId' # 0 /\ ~clientSession'
          => Render(routeLoading'[routeId'], heldSession'[routeId']) # "children"]_vars
  /\ [][\A i \in RouteInstances : routeId = i /\ routeId' = i /\ ~routeLoading[i]
                                    => ~routeLoading'[i]]_vars

\* A route that rendered its children, its timer armed, and now renders the
\* redirect: the session has ended.
C29_Witness ==
  /\ routeId # 0
  /\ timeoutRef[routeId] # 0
  /\ ~clientSession
  /\ Rendered(routeId) = "redirect"

\* C30 as stated: at most one inactivity timer is pending, and none for a
\* route that is unmounted; a timeout fires only when 10 minutes have passed
\* since resetTimer was last called.
C30_AsStated ==
  /\ Cardinality(timers) <= 1
  /\ \A t \in timers : t.inst = routeId
  /\ timedOut.inst # 0 => timedOut.at >= timedOut.lastReset + SESSION_TIMEOUT

====
